---- MODULE Spec2Model ----
(***************************************************************************)
(* Price acquisition, caching and refresh orchestration of                 *)
(* phoebudget-server (FinanceService in src/services.rs, the adapters of   *)
(* src/investments.rs and the catalog access of src/repository.rs).        *)
(*                                                                         *)
(* A request is one call of a FinanceService method; a task is one call of *)
(* ensure_price_fresh made by a request.  Every await of the code is one   *)
(* step, so that tasks and requests interleave as the futures do.          *)
(***************************************************************************)
EXTENDS Integers, Sequences, FiniteSets, TLC

\* ------------------------------------------------------------------ bounds
\* MaxReqs: requests received in one run; TickStep: seconds the clock
\* advances in one step; MaxAge: an older cache entry is recorded as MaxAge
\* seconds old; MaxItems: rows of a portfolio handed to the valuation;
\* DecimalPlaces: fractional digits a Decimal keeps.
MaxReqs == 2
TickStep == 3
MaxAge == 3
MaxItems == 2
MaxRefreshes == 2
MaxTransfers == 2
MaxAmount == 2
DecimalPlaces == 2

\* ------------------------------------------------------- program constants
PRICE_TTL == 3
EXCHANGE_RATE_TTL == 60

\* --------------------------------------------------------------- universes
Tickers == {"AAPL", "BTC", "XRP"}
Prices == {1, 2}
Rates == {2}
Currencies == {"USD", "SGD"}
\* The slots in which requests are served: two requests run at once.
ReqIds == {1, 2}

\* What an upstream service can answer to one HTTP request.
UpstreamStatuses == {"ok", "conn_failed", "http_error", "bad_payload", "no_data"}
\* The answers the services give in a run.
PriceStatuses == {"ok", "http_error"}
IconStatuses == {"ok", "conn_failed", "http_error"}
RateStatuses == {"ok", "http_error"}
\* Currency field of a Yahoo payload: "" stands for an absent field.
PayloadCurrencies == {""}

\* ----------------------------------------------------------------- results
NoResult == [tag |-> "none", value |-> 0, kind |-> "", msg |-> "", ticker |-> ""]
Ok(v) == [tag |-> "ok", value |-> v, kind |-> "", msg |-> "", ticker |-> ""]
Err(k, m) == [tag |-> "err", value |-> 0, kind |-> k, msg |-> m, ticker |-> ""]
IsOk(res) == res.tag = "ok"
IsErr(res) == res.tag = "err"

\* A sqlx error converted by From<sqlx::Error>.
DatabaseError == Err("DatabaseError", "sqlx")
ValidationError(m) == Err("ValidationError", m)
\* A ValidationError whose message is formatted with the symbol asked for.
ValidationErrorFor(m, t) == [ValidationError(m) EXCEPT !.ticker = t]

\* ------------------------------------------------------------------ caches
\* An entry holds its value and the seconds passed since its insert.
NoEntry == [present |-> FALSE, value |-> 0, age |-> 0]
Entry(v) == [present |-> TRUE, value |-> v, age |-> 0]

\* Mutant: an entry exactly ttl old is still served.
IsExpired_Strict(e, ttl) == e.age > ttl

\* moka time_to_live: an entry is expired once ttl has passed since its insert.
IsExpired(e, ttl) == e.age >= ttl

\* Cache::get: the value of a present, unexpired entry.
CacheGet(cache, key, ttl) ==
    IF cache[key].present /\ ~IsExpired(cache[key], ttl)
    THEN Ok(cache[key].value)
    ELSE NoResult

\* Cache::insert: store the value as a new entry, replacing an older one.
CacheInsert(cache, key, v) == [cache EXCEPT ![key] = Entry(v)]

\* The clock advances for every entry of a cache.
Min(a, b) == IF a <= b THEN a ELSE b
Older(cache) ==
    [k \in DOMAIN cache |->
        IF cache[k].present
        THEN [cache[k] EXCEPT !.age = Min(@ + TickStep, MaxAge)]
        ELSE cache[k]]

\* format!("{}_{}", from, to)
CacheKey(from, to) == from \o "_" \o to
FxKeys == {CacheKey(f, t) : f \in Currencies, t \in Currencies}

\* ----------------------------------------------------------- asset catalog
NoAsset ==
    [exists |-> FALSE, api_ticker |-> "", source |-> "", icon_url |-> "",
     current_price |-> 0, currency |-> ""]
SeedAsset(api, src, icon) ==
    [exists |-> TRUE, api_ticker |-> api, source |-> src, icon_url |-> icon,
     current_price |-> 0, currency |-> ""]

\* The assets table as seeded; the program never inserts or deletes a row.
SeedAssets ==
    [t \in Tickers |->
        CASE t = "AAPL" -> SeedAsset("", "", "aapl.png")
          [] t = "BTC" -> SeedAsset("bitcoin", "COINGECKO", "")
          [] t = "XRP" -> SeedAsset("XRPUSD", "KRAKEN", "")
          [] OTHER -> NoAsset]

\* ---------------------------------------------------------------- adapters
\* str::to_lowercase / str::to_uppercase on the provider symbols in use.
ToLowercase(s) ==
    CASE s = "XRPUSD" -> "xrpusd"
      [] s = "AAPL" -> "aapl"
      [] OTHER -> s
ToUppercase(s) ==
    CASE s = "bitcoin" -> "BITCOIN"
      [] OTHER -> s

\* One upstream answer: its outcome, and the price and currency of a good one.
Response(st, p, c) == [status |-> st, price |-> p, currency |-> c]
Responses ==
    {Response(st, 0, "") : st \in PriceStatuses \ {"ok"}}
        \cup {Response("ok", p, c) : p \in Prices, c \in PayloadCurrencies}

\* What fetch_price_with_source hands back: the Result, the currency of an Ok
\* and the adapters whose HTTP request was sent, in order.
Fetched(res, c, called) == [res |-> res, currency |-> c, called |-> called]

fetch_price_yahoo(ticker, resp) ==
    CASE resp.status = "conn_failed" ->
            Fetched(ValidationError("Yahoo API connection failed"), "", <<"YAHOO">>)
      [] resp.status = "http_error" ->
            Fetched(ValidationError("Yahoo API returned error"), "", <<"YAHOO">>)
      [] resp.status = "bad_payload" ->
            Fetched(ValidationError("Failed to parse Yahoo response"), "", <<"YAHOO">>)
      [] resp.status = "no_data" ->
            Fetched(ValidationErrorFor("No data found", ticker), "", <<"YAHOO">>)
      [] OTHER ->
            Fetched(Ok(resp.price),
                    IF resp.currency = "" THEN "USD" ELSE resp.currency,
                    <<"YAHOO">>)

fetch_price_binance(ticker, resp) ==
    CASE resp.status = "conn_failed" ->
            Fetched(ValidationError("Binance API connection failed"), "", <<"BINANCE">>)
      [] resp.status = "http_error" ->
            Fetched(ValidationErrorFor("Binance API returned error", ticker), "", <<"BINANCE">>)
      [] resp.status \in {"bad_payload", "no_data"} ->
            Fetched(ValidationError("Failed to parse Binance response"), "", <<"BINANCE">>)
      [] OTHER -> Fetched(Ok(resp.price), "USD", <<"BINANCE">>)

fetch_price_coingecko(ticker, resp) ==
    CASE resp.status = "conn_failed" ->
            Fetched(ValidationError("CoinGecko API connection failed"), "", <<"COINGECKO">>)
      [] resp.status = "http_error" ->
            Fetched(ValidationError("CoinGecko API returned error"), "", <<"COINGECKO">>)
      [] resp.status = "bad_payload" ->
            Fetched(ValidationError("Failed to parse CoinGecko response"), "", <<"COINGECKO">>)
      [] resp.status = "no_data" ->
            Fetched(ValidationErrorFor("CoinGecko: No price found for ID", ticker), "", <<"COINGECKO">>)
      [] OTHER -> Fetched(Ok(resp.price), "USD", <<"COINGECKO">>)

\* Mutant: a failed provider is followed by a second try on Yahoo.
fetch_price_with_source_Fallback(ticker, api_ticker, source, resp) ==
    LET first == CASE source = "YAHOO" -> fetch_price_yahoo(api_ticker, resp)
                   [] source = "BINANCE" -> fetch_price_binance(ToUppercase(api_ticker), resp)
                   [] source = "COINGECKO" -> fetch_price_coingecko(ToLowercase(api_ticker), resp)
                   [] OTHER -> Fetched(ValidationError("Unknown price source"), "", <<>>)
        second == fetch_price_yahoo(ticker, resp)
    IN  IF IsErr(first.res) /\ first.called # <<>>
        THEN Fetched(second.res, second.currency, first.called \o second.called)
        ELSE first

\* Mutant: an unknown source is served by the Yahoo adapter.
fetch_price_with_source_DefaultYahoo(ticker, api_ticker, source, resp) ==
    CASE source = "BINANCE" -> fetch_price_binance(ToUppercase(api_ticker), resp)
      [] source = "COINGECKO" -> fetch_price_coingecko(ToLowercase(api_ticker), resp)
      [] OTHER -> fetch_price_yahoo(api_ticker, resp)

fetch_price_with_source(ticker, api_ticker, source, resp) ==
    CASE source = "YAHOO" -> fetch_price_yahoo(api_ticker, resp)
      [] source = "BINANCE" -> fetch_price_binance(ToUppercase(api_ticker), resp)
      [] source = "COINGECKO" -> fetch_price_coingecko(ToLowercase(api_ticker), resp)
      [] OTHER -> Fetched(ValidationError("Unknown price source"), "", <<>>)

\* fetch_coingecko_icon: Err on a connection failure, Ok(None) on a bad status
\* or payload, Ok(Some(url)) otherwise.  value 1 stands for Some, 0 for None.
IconUrl(coin_id) == ToLowercase(coin_id) \o ".png"
fetch_coingecko_icon(coin_id, st) ==
    CASE st = "conn_failed" -> ValidationError("CoinGecko icon API connection failed")
      [] st \in {"http_error", "bad_payload"} -> Ok(0)
      [] OTHER -> Ok(1)

\* fetch_exchange_rate: 1 for equal currencies, else one Frankfurter request.
RateResponses ==
    {Response(st, 0, "") : st \in RateStatuses \ {"ok"}}
        \cup {Response("ok", x, "") : x \in Rates}
\* Mutant: the request is sent whatever the two currencies.
fetch_exchange_rate_Always(from, to, resp) ==
    CASE resp.status = "http_error" ->
            Fetched(ValidationError("Frankfurter API returned error"), "", <<"FRANKFURTER">>)
      [] OTHER -> Fetched(Ok(resp.price), "", <<"FRANKFURTER">>)

fetch_exchange_rate(from, to, resp) ==
    IF from = to THEN Fetched(Ok(1), "", <<>>)
    ELSE CASE resp.status = "conn_failed" ->
                Fetched(ValidationError("Frankfurter API connection failed"), "", <<"FRANKFURTER">>)
           [] resp.status = "http_error" ->
                Fetched(ValidationError("Frankfurter API returned error"), "", <<"FRANKFURTER">>)
           [] resp.status = "bad_payload" ->
                Fetched(ValidationError("Failed to parse Frankfurter response"), "", <<"FRANKFURTER">>)
           [] resp.status = "no_data" ->
                Fetched(ValidationError("No rate found"), "", <<"FRANKFURTER">>)
           [] OTHER -> Fetched(Ok(resp.price), "", <<"FRANKFURTER">>)

\* --------------------------------------------------------------- valuation
\* A Decimal is the integer count of its units of 10^-DecimalPlaces.  The
\* values used below have exact products and quotients at this precision, as
\* they have with the 28 digits of rust_decimal.
Scale == 10 ^ DecimalPlaces
Dec(n) == n * Scale
Half == Scale \div 2

\* What a Decimal division by zero yields in place of a value: it panics.
DivByZero == -1000000000

Abs(a) == IF a < 0 THEN 0 - a ELSE a
Sign(a) == IF a < 0 THEN 0 - 1 ELSE 1

\* Decimal * Decimal and Decimal / Decimal, digits beyond the precision cut.
Mul(a, b) ==
    IF a = DivByZero \/ b = DivByZero THEN DivByZero
    ELSE Sign(a) * Sign(b) * ((Abs(a) * Abs(b)) \div Scale)
Div(a, b) ==
    IF a = DivByZero \/ b = DivByZero \/ b = 0 THEN DivByZero
    ELSE Sign(a) * Sign(b) * ((Abs(a) * Scale) \div Abs(b))

\* A PortfolioJoinedRow; currency and icon_url "" stand for None.
Row(t, q, avg, cur, c) ==
    [ticker |-> t, name |-> "Apple Inc.", quantity |-> q, avg_buy_price |-> avg,
     current_price |-> cur, currency |-> c, icon_url |-> ""]

\* item.currency.unwrap_or_else(|| "USD".to_string())
AssetCurrency(item) == IF item.currency = "" THEN "USD" ELSE item.currency

\* Mutant: the division is made whatever the base price.
calculate_change_percent_Unguarded(current_price, base_price) ==
    Mul(Div(current_price - base_price, base_price), Dec(100))

calculate_change_percent(current_price, base_price) ==
    IF base_price > 0
    THEN Mul(Div(current_price - base_price, base_price), Dec(100))
    ELSE 0

\* Mutant: the change is taken from the converted current price.
calculate_investment_summary_Converted(item, exchange_rate, base_currency) ==
    [ticker |-> item.ticker,
     name |-> item.name,
     quantity |-> item.quantity,
     avg_buy_price |-> item.avg_buy_price,
     avg_buy_price_converted |-> Mul(item.avg_buy_price, exchange_rate),
     current_price |-> item.current_price,
     current_price_converted |-> Mul(item.current_price, exchange_rate),
     total_value |-> Mul(item.quantity, item.current_price),
     total_value_converted |->
        Mul(item.quantity, Mul(item.current_price, exchange_rate)),
     change_pct |-> calculate_change_percent(Mul(item.current_price, exchange_rate),
                                             item.avg_buy_price),
     currency |-> base_currency,
     asset_currency |-> AssetCurrency(item),
     icon_url |-> item.icon_url]

\* Mutant: the converted value of the holding is left in its own currency.
calculate_investment_summary_NativeValue(item, exchange_rate, base_currency) ==
    [ticker |-> item.ticker,
     name |-> item.name,
     quantity |-> item.quantity,
     avg_buy_price |-> item.avg_buy_price,
     avg_buy_price_converted |-> Mul(item.avg_buy_price, exchange_rate),
     current_price |-> item.current_price,
     current_price_converted |-> Mul(item.current_price, exchange_rate),
     total_value |-> Mul(item.quantity, item.current_price),
     total_value_converted |-> Mul(item.quantity, item.current_price),
     change_pct |-> calculate_change_percent(item.current_price, item.avg_buy_price),
     currency |-> base_currency,
     asset_currency |-> AssetCurrency(item),
     icon_url |-> item.icon_url]

calculate_investment_summary(item, exchange_rate, base_currency) ==
    [ticker |-> item.ticker,
     name |-> item.name,
     quantity |-> item.quantity,
     avg_buy_price |-> item.avg_buy_price,
     avg_buy_price_converted |-> Mul(item.avg_buy_price, exchange_rate),
     current_price |-> item.current_price,
     current_price_converted |-> Mul(item.current_price, exchange_rate),
     total_value |-> Mul(item.quantity, item.current_price),
     total_value_converted |->
        Mul(item.quantity, Mul(item.current_price, exchange_rate)),
     change_pct |-> calculate_change_percent(item.current_price, item.avg_buy_price),
     currency |-> base_currency,
     asset_currency |-> AssetCurrency(item),
     icon_url |-> item.icon_url]

\* Mutant: a currency without a rate is valued at 0.
get_exchange_rate_AbsentZero(from_currency, to_currency, rates) ==
    IF from_currency = to_currency THEN Dec(1)
    ELSE IF from_currency \in DOMAIN rates THEN rates[from_currency] ELSE 0

\* Mutant: the rate map is asked before the currencies are compared.
get_exchange_rate_MapFirst(from_currency, to_currency, rates) ==
    IF from_currency \in DOMAIN rates THEN rates[from_currency] ELSE Dec(1)

\* rates is the HashMap: a function from the currencies it has a rate for.
get_exchange_rate(from_currency, to_currency, rates) ==
    IF from_currency = to_currency THEN Dec(1)
    ELSE IF from_currency \in DOMAIN rates THEN rates[from_currency] ELSE Dec(1)

NoResponse == [investments |-> <<>>, total_cost |-> 0, absolute_change |-> 0]

\* Mutant: the totals are summed without the rate of the holding.
Accumulate_Native(acc, item, rate, base_currency) ==
    [investments |->
        Append(acc.investments, calculate_investment_summary(item, rate, base_currency)),
     total_cost |-> acc.total_cost + Mul(item.quantity, item.avg_buy_price),
     absolute_change |->
        acc.absolute_change
            + (Mul(item.quantity, item.current_price)
                - Mul(item.quantity, item.avg_buy_price))]

\* One turn of the loop of build_portfolio_response.
Accumulate(acc, item, rate, base_currency) ==
    [investments |->
        Append(acc.investments, calculate_investment_summary(item, rate, base_currency)),
     total_cost |-> acc.total_cost + Mul(Mul(item.quantity, item.avg_buy_price), rate),
     absolute_change |->
        acc.absolute_change
            + (Mul(Mul(item.quantity, item.current_price), rate)
                - Mul(Mul(item.quantity, item.avg_buy_price), rate))]

RECURSIVE BuildFrom(_, _, _, _)
BuildFrom(acc, items, exchange_rates, base_currency) ==
    IF items = <<>> THEN acc
    ELSE BuildFrom(
            Accumulate(acc, Head(items),
                       get_exchange_rate(AssetCurrency(Head(items)), base_currency,
                                         exchange_rates),
                       base_currency),
            Tail(items), exchange_rates, base_currency)

build_portfolio_response(items, exchange_rates, base_currency) ==
    BuildFrom(NoResponse, items, exchange_rates, base_currency)

\* The inputs the valuation functions are called with.
Quantities == {Dec(1), Dec(2)}
BuyPrices == {0, Dec(2)}
CurrentPrices == {Dec(1), Dec(3)}
RowCurrencies == {"", "USD", "SGD", "EUR"}
Rows ==
    {Row("AAPL", q, avg, cur, c) :
        q \in Quantities, avg \in BuyPrices, cur \in CurrentPrices, c \in RowCurrencies}
ItemLists == UNION {[1..n -> Rows] : n \in 0..MaxItems}
RateValues == {Half, Dec(1), Dec(2)}
RateMaps ==
    {[c \in d |-> IF c = "USD" THEN Dec(2) ELSE Half] : d \in SUBSET Currencies}

\* A call of a pure function: of calculate_investment_summary or
\* build_portfolio_response, or of a price adapter with the symbol asked for
\* and the answer of the upstream.
NoSummary == calculate_investment_summary(Row("", 0, 0, 0, ""), 0, "")
NoReport ==
    [fn |-> "none", items |-> <<>>, rate |-> 0, rates |-> <<>>, base |-> "",
     summary |-> NoSummary, response |-> NoResponse,
     symbol |-> "", upstream |-> <<>>, fetched |-> <<>>]

\* ---------------------------------------------------------- refresh tokens
\* The calls of refresh_access in the order they arrive, the users, and the
\* ids of the token rows: the three rows of the start and one more for each
\* call.
RefreshCalls == 1..MaxRefreshes
Users == {"alice", "bob"}
TokenIds == 1..(3 + MaxRefreshes)

\* A row of refresh_tokens, its id being its place in the table;
\* replaced_by 0 is NULL, expired tells that expires_at has passed.
TokenRow(user_id) ==
    [user_id |-> user_id, replaced_by |-> 0, is_revoked |-> FALSE, expired |-> FALSE]
NoToken == TokenRow("")

\* UPDATE refresh_tokens SET replaced_by = $1 WHERE id = $2
rotate(tbl, old_id, new) == [tbl EXCEPT ![old_id].replaced_by = new]

\* The table after a login of each user and one refresh_access of alice,
\* which rotated her token 1 into token 3.
InitialTokens ==
    rotate(<<TokenRow("alice"), TokenRow("bob"), TokenRow("alice")>>, 1, 3)

\* The locals of one refresh_access call: the token presented (0 for a
\* token no row has), the row read, the id of the new row.
NoRefreshCall ==
    [pc |-> "none", token |-> 0, token_row |-> NoToken, new |-> 0, result |-> NoResult]

AuthError(m) == Err("AuthError", m)
NotFoundError(m) == Err("NotFoundError", m)

\* -------------------------------------------------------------- transfers
\* The calls of transfer_funds, the pockets of the user (pocket 3 is a pocket
\* the user has not) and the amounts a request may carry; the calls are kept
\* in the order they arrive.
TransferCalls == 1..MaxTransfers
Pockets == {1, 2}
PocketIds == {1, 2, 3}
Amounts == 0..MaxAmount

\* What the earlier income of the user left in each pocket.
OpeningBalance == [p \in Pockets |-> IF p = 1 THEN MaxAmount ELSE 1]
NoTransfer ==
    [pc |-> "none", source |-> 0, destination |-> 0, amount |-> 0,
     balance |-> 0, result |-> NoResult]

\* ------------------------------------------------------------------- state
VARIABLES
    price_cache,          \* FinanceService.price_cache: ticker -> entry
    exchange_rate_cache,  \* FinanceService.exchange_rate_cache: key -> entry
    assets,               \* the assets table
    portfolio,            \* tickers of the user's portfolio rows
    nreq,                 \* number of requests received so far
    reqs,                 \* slot -> the service call being served there
    tasks,                \* slot -> ticker -> its ensure_price_fresh call
    report,               \* the last call of a valuation function and its value
    refresh_tokens,       \* the refresh_tokens table: id -> row
    refresh_calls,        \* the refresh_access calls made, with their locals
    transactions,         \* the transactions table: the set of its rows
    transfers             \* the transfer_funds calls made, with their locals

vars == <<price_cache, exchange_rate_cache, assets, portfolio, nreq, reqs, tasks,
          report, refresh_tokens, refresh_calls, transactions, transfers>>

\* The tables and calls of the account services.
accounts == <<refresh_tokens, refresh_calls, transactions, transfers>>
AccountsInit ==
    /\ refresh_tokens = InitialTokens
    /\ refresh_calls = <<>>
    /\ transactions = {}
    /\ transfers = <<>>

\* The locals of one ensure_price_fresh call.  hit tells a cache hit and
\* stale a lookup that found an expired entry, asset what get_asset found,
\* icon how the icon branch ended (until the price fetch answers), called
\* the adapters whose HTTP request was sent, wrote whether update_asset_price
\* returned Ok, newest (of a fetched quote that has not been stored) whether
\* no call has fetched a quote of the ticker since this one did.
NoTask ==
    [pc |-> "none", hit |-> FALSE, stale |-> FALSE, asset |-> "",
     api_ticker |-> "", source |-> "", icon |-> "", fetched |-> NoResult,
     currency |-> "", called |-> <<>>, wrote |-> FALSE, newest |-> FALSE,
     result |-> NoResult]

\* The locals of one service call.
NoReq ==
    [kind |-> "none", pc |-> "none", ticker |-> "", from |-> "", to |-> "",
     listed |-> FALSE, tickers |-> {}, count |-> 0, hit |-> FALSE,
     called |-> <<>>, base |-> "", items |-> <<>>, currencies |-> {},
     rates |-> <<>>, response |-> NoResponse, result |-> NoResult]

Init ==
    /\ price_cache = [t \in Tickers |-> NoEntry]
    /\ exchange_rate_cache = [k \in FxKeys |-> NoEntry]
    /\ assets = SeedAssets
    /\ portfolio = {"AAPL"}
    /\ nreq = 0
    /\ reqs = [r \in ReqIds |-> NoReq]
    /\ tasks = [r \in ReqIds |-> [t \in Tickers |-> NoTask]]
    /\ report = NoReport
    /\ AccountsInit

SetTask(r, t, task) == tasks' = [tasks EXCEPT ![r][t] = task]
Finish(task, res) == [task EXCEPT !.pc = "done", !.result = res]

\* ------------------------------------------------------ ensure_price_fresh
\* Mutant: a hit is served only after the asset has been read again.
ensure_price_fresh_Revalidate(cache, t) ==
    [NoTask EXCEPT !.pc = "get_asset", !.stale = cache[t].present]

\* The call up to its first suspension: price_cache.get(ticker) returns the
\* cached price on a hit, and a miss goes on to read the asset.
ensure_price_fresh(cache, t) ==
    LET got == CacheGet(cache, t, PRICE_TTL)
    IN  IF IsOk(got)
        THEN [Finish(NoTask, got) EXCEPT !.hit = TRUE]
        ELSE [NoTask EXCEPT !.pc = "get_asset", !.stale = cache[t].present]

\* (api_ticker, source) of an asset row, with the defaults of unwrap_or.
ApiTickerOf(asset, t) == IF asset.api_ticker = "" THEN t ELSE asset.api_ticker
SourceOf(asset) == IF asset.source = "" THEN "YAHOO" ELSE asset.source

\* Mutant: a ticker without a catalog row is refused.
AfterGetAsset_AbsentFails(task, asset, t, dbok) ==
    IF ~dbok THEN Finish(task, DatabaseError)
    ELSE IF asset.exists
    THEN [task EXCEPT
            !.asset = "found",
            !.api_ticker = ApiTickerOf(asset, t),
            !.source = SourceOf(asset),
            !.pc = IF asset.icon_url = "" /\ SourceOf(asset) = "COINGECKO"
                   THEN "icon" ELSE "fetch"]
    ELSE [Finish(task, ValidationError("Asset not found")) EXCEPT !.asset = "absent"]

\* Where the task goes once get_asset has answered (the ?), and the choice
\* of provider and of the icon branch.
AfterGetAsset(task, asset, t, dbok) ==
    IF ~dbok THEN Finish(task, DatabaseError)
    ELSE IF asset.exists
    THEN [task EXCEPT
            !.asset = "found",
            !.api_ticker = ApiTickerOf(asset, t),
            !.source = SourceOf(asset),
            !.pc = IF asset.icon_url = "" /\ SourceOf(asset) = "COINGECKO"
                   THEN "icon" ELSE "fetch"]
    ELSE [task EXCEPT !.asset = "absent", !.api_ticker = t, !.source = "YAHOO",
                      !.pc = "fetch"]

\* portfolio_repo.get_asset(ticker).await?
GetAsset(r, t) ==
    /\ tasks[r][t].pc = "get_asset"
    /\ \E dbok \in BOOLEAN : SetTask(r, t, AfterGetAsset(tasks[r][t], assets[t], t, dbok))
    /\ UNCHANGED <<price_cache, exchange_rate_cache, assets, portfolio, nreq, reqs, report, accounts>>

\* Mutant: an Err of fetch_coingecko_icon is returned with ?.
AfterIcon_Fatal(task, got) ==
    IF IsErr(got) THEN [Finish(task, got) EXCEPT !.icon = "error"]
    ELSE IF got.value = 0 THEN [task EXCEPT !.icon = "none", !.pc = "fetch"]
    ELSE [task EXCEPT !.icon = "found", !.pc = "save_icon"]

\* Where the task goes once fetch_coingecko_icon has answered: only
\* Ok(Some(url)) leads to update_asset_icon, the rest is logged.
AfterIcon(task, got) ==
    IF IsErr(got) THEN [task EXCEPT !.icon = "error", !.pc = "fetch"]
    ELSE IF got.value = 0 THEN [task EXCEPT !.icon = "none", !.pc = "fetch"]
    ELSE [task EXCEPT !.icon = "found", !.pc = "save_icon"]

\* investments::fetch_coingecko_icon(&self.http_client, &api_ticker).await
FetchIcon(r, t) ==
    /\ tasks[r][t].pc = "icon"
    /\ \E st \in IconStatuses :
        SetTask(r, t, AfterIcon(tasks[r][t],
                                fetch_coingecko_icon(tasks[r][t].api_ticker, st)))
    /\ UNCHANGED <<price_cache, exchange_rate_cache, assets, portfolio, nreq, reqs, report, accounts>>

\* Where the task goes once update_asset_icon has answered: an Err is logged.
AfterSaveIcon(task, dbok) ==
    [task EXCEPT !.icon = IF dbok THEN "saved" ELSE "save_failed", !.pc = "fetch"]

\* UPDATE assets SET icon_url WHERE ticker
update_asset_icon(tbl, t, url) ==
    IF tbl[t].exists THEN [tbl EXCEPT ![t].icon_url = url] ELSE tbl

\* portfolio_repo.update_asset_icon(ticker, &url).await
SaveIcon(r, t) ==
    /\ tasks[r][t].pc = "save_icon"
    /\ \E dbok \in BOOLEAN :
        /\ SetTask(r, t, AfterSaveIcon(tasks[r][t], dbok))
        /\ assets' = IF dbok
                     THEN update_asset_icon(assets, t, IconUrl(tasks[r][t].api_ticker))
                     ELSE assets
    /\ UNCHANGED <<price_cache, exchange_rate_cache, portfolio, nreq, reqs, report, accounts>>

\* Where the task goes once fetch_price_with_source has answered (the ?).
AfterFetch(task, f) ==
    IF IsErr(f.res)
    THEN [Finish(task, f.res) EXCEPT !.fetched = f.res, !.called = f.called,
                                     !.icon = ""]
    ELSE [task EXCEPT !.fetched = f.res, !.currency = f.currency,
                      !.called = f.called, !.icon = "", !.pc = "persist",
                      !.newest = TRUE]

\* The calls in progress once the call of slot r has fetched a quote of t:
\* the quotes the other calls hold for t are older from now on.
Superseded(tbl, r, t, task) ==
    [q \in ReqIds |->
        IF q = r THEN [tbl[q] EXCEPT ![t] = task]
        ELSE IF IsOk(task.fetched) THEN [tbl[q] EXCEPT ![t].newest = FALSE]
        ELSE tbl[q]]

\* investments::fetch_price_with_source(...).await?
FetchPrice(r, t) ==
    /\ tasks[r][t].pc = "fetch"
    /\ \E resp \in Responses :
        tasks' = Superseded(tasks, r, t, AfterFetch(tasks[r][t],
            fetch_price_with_source(t, tasks[r][t].api_ticker, tasks[r][t].source, resp)))
    /\ UNCHANGED <<price_cache, exchange_rate_cache, assets, portfolio, nreq, reqs, report, accounts>>

\* UPDATE assets SET current_price, currency WHERE ticker: no row, no change.
update_asset_price(tbl, t, price, currency) ==
    IF tbl[t].exists
    THEN [tbl EXCEPT ![t].current_price = price, ![t].currency = currency]
    ELSE tbl

\* Mutant: an Err of update_asset_price is logged and the price returned.
AfterPersist_NonFatal(task, dbok) ==
    IF dbok
    THEN [Finish(task, Ok(task.fetched.value)) EXCEPT !.wrote = TRUE, !.newest = FALSE]
    ELSE Finish(task, Ok(task.fetched.value))

\* Where the task goes once update_asset_price has answered: the ? returns
\* its error, otherwise the price is cached and returned.
AfterPersist(task, dbok) ==
    IF dbok
    THEN [Finish(task, Ok(task.fetched.value)) EXCEPT !.wrote = TRUE, !.newest = FALSE]
    ELSE Finish(task, DatabaseError)

\* Mutant: the price is cached whatever update_asset_price answered.
CacheAfterPersist_Always(cache, t, task, dbok) ==
    CacheInsert(cache, t, task.fetched.value)

\* The price cache once update_asset_price has answered: insert on success.
CacheAfterPersist(cache, t, task, dbok) ==
    IF dbok THEN CacheInsert(cache, t, task.fetched.value) ELSE cache

\* portfolio_repo.update_asset_price(ticker, price, &currency).await?;
\* price_cache.insert(ticker, price).await; Ok(price)
Persist(r, t) ==
    /\ tasks[r][t].pc = "persist"
    /\ \E dbok \in BOOLEAN :
        /\ SetTask(r, t, AfterPersist(tasks[r][t], dbok))
        /\ assets' = IF dbok
                     THEN update_asset_price(assets, t, tasks[r][t].fetched.value,
                                             tasks[r][t].currency)
                     ELSE assets
        /\ price_cache' = CacheAfterPersist(price_cache, t, tasks[r][t], dbok)
    /\ UNCHANGED <<exchange_rate_cache, portfolio, nreq, reqs, report, accounts>>

\* ---------------------------------------------------------------- requests
SetReq(r, req) == reqs' = [reqs EXCEPT ![r] = req]
Return(req, res) == [req EXCEPT !.pc = "done", !.result = res]

\* A new request takes the first free slot while the bounds allow one more.
FreeSlots == {r \in ReqIds : reqs[r].pc = "none"}
CanStart(r) ==
    /\ nreq < MaxReqs
    /\ r \in FreeSlots
    /\ \A q \in FreeSlots : r <= q

\* The response has been sent: the call's locals are dropped.
Respond(r) ==
    /\ reqs[r].pc = "done"
    /\ SetReq(r, NoReq)
    /\ tasks' = [tasks EXCEPT ![r] = [t \in Tickers |-> NoTask]]
    /\ UNCHANGED <<price_cache, exchange_rate_cache, assets, portfolio, nreq, report, accounts>>

\* ------------------------------------------------------- refresh_portfolio
\* A handler calls service.refresh_portfolio(user_id).
StartRefresh(r) ==
    /\ CanStart(r)
    /\ nreq' = nreq + 1
    /\ SetReq(r, [NoReq EXCEPT !.kind = "refresh", !.pc = "get_tickers"])
    /\ UNCHANGED <<price_cache, exchange_rate_cache, assets, portfolio, tasks, report, accounts>>

\* SELECT DISTINCT ticker FROM portfolio: the distinct tickers of the user.
get_tickers(rows) == rows

\* The futures join_all polls: one ensure_price_fresh per ticker.
LaunchAll(tickers, cache) ==
    [t \in Tickers |-> IF t \in tickers THEN ensure_price_fresh(cache, t)
                       ELSE NoTask]

\* portfolio_repo.get_tickers(user_id).await?, tickers.len(), and the first
\* poll of join_all.
GetTickers(r) ==
    /\ reqs[r].kind = "refresh" /\ reqs[r].pc = "get_tickers"
    /\ \E dbok \in BOOLEAN :
        IF ~dbok
        THEN /\ SetReq(r, Return(reqs[r], DatabaseError))
             /\ UNCHANGED tasks
        ELSE LET tickers == get_tickers(portfolio)
             IN  /\ SetReq(r, [reqs[r] EXCEPT !.listed = TRUE, !.tickers = tickers,
                                              !.count = Cardinality(tickers),
                                              !.pc = "join"])
                 /\ tasks' = [tasks EXCEPT ![r] = LaunchAll(tickers, price_cache)]
    /\ UNCHANGED <<price_cache, exchange_rate_cache, assets, portfolio, nreq, report, accounts>>

\* Mutant: try_join_all, which resolves at the first Err.
JoinAllReady_TryJoin(r) ==
    \/ \A t \in reqs[r].tickers : tasks[r][t].pc = "done"
    \/ \E t \in reqs[r].tickers : tasks[r][t].pc = "done" /\ IsErr(tasks[r][t].result)

\* Mutant: select, which resolves with the first future.
JoinAllReady_First(r) == \E t \in reqs[r].tickers : tasks[r][t].pc = "done"

\* join_all resolves when every future it holds has resolved.
JoinAllReady(r) == \A t \in reqs[r].tickers : tasks[r][t].pc = "done"

\* Mutant: the count of the refreshes that succeeded.
RefreshResult_Succeeded(r) ==
    Ok(Cardinality({t \in reqs[r].tickers : IsOk(tasks[r][t].result)}))

\* The closure logs an Err and yields (); refresh_portfolio returns Ok(count).
RefreshResult(r) == Ok(reqs[r].count)

\* futures::future::join_all(fetch_futures).await; Ok(count)
JoinAll(r) ==
    /\ reqs[r].kind = "refresh" /\ reqs[r].pc = "join"
    /\ JoinAllReady(r)
    /\ SetReq(r, Return(reqs[r], RefreshResult(r)))
    /\ UNCHANGED <<price_cache, exchange_rate_cache, assets, portfolio, nreq, tasks, report, accounts>>

\* ---------------------------------------------------------- add_investment
\* A handler calls service.add_investment(user_id, item); the call starts
\* with ensure_price_fresh(&item.ticker).
StartAdd(r, t) ==
    /\ CanStart(r)
    /\ nreq' = nreq + 1
    /\ SetReq(r, [NoReq EXCEPT !.kind = "add", !.ticker = t, !.pc = "ensure"])
    /\ SetTask(r, t, ensure_price_fresh(price_cache, t))
    /\ UNCHANGED <<price_cache, exchange_rate_cache, assets, portfolio, report, accounts>>

\* portfolio_repo.add_item and the mapping of its error by add_investment:
\* an unknown asset is rejected, a duplicate row is a ValidationError.
add_item(tbl, rows, t, dbok) ==
    IF ~dbok THEN DatabaseError
    ELSE IF ~tbl[t].exists THEN ValidationError("Asset not supported")
    ELSE IF t \in rows THEN ValidationError("already in your portfolio")
    ELSE Ok(0)

\* Mutant: the Err of ensure_price_fresh is logged and add_item runs.
AddOutcome_Swallow(price, tbl, rows, t, dbok) == add_item(tbl, rows, t, dbok)

\* What add_investment returns once ensure_price_fresh has returned: the ?
\* returns its error, otherwise add_item runs.
AddOutcome(price, tbl, rows, t, dbok) ==
    IF IsErr(price) THEN price ELSE add_item(tbl, rows, t, dbok)

\* self.ensure_price_fresh(&item.ticker).await?; portfolio_repo.add_item(..)
AddItem(r) ==
    /\ reqs[r].kind = "add" /\ reqs[r].pc = "ensure"
    /\ tasks[r][reqs[r].ticker].pc = "done"
    /\ \E dbok \in BOOLEAN :
        LET t == reqs[r].ticker
            res == AddOutcome(tasks[r][t].result, assets, portfolio, t, dbok)
        IN  /\ SetReq(r, Return(reqs[r], res))
            /\ portfolio' = IF IsOk(res) THEN portfolio \cup {t} ELSE portfolio
    /\ UNCHANGED <<price_cache, exchange_rate_cache, assets, nreq, tasks, report, accounts>>

\* ------------------------------------------------ get_cached_exchange_rate
\* The call up to its first suspension: 1 for equal currencies, the cached
\* rate on a hit, and a miss goes on to fetch.
get_cached_exchange_rate(cache, from, to) ==
    LET got == CacheGet(cache, CacheKey(from, to), EXCHANGE_RATE_TTL)
        req == [NoReq EXCEPT !.kind = "rate", !.from = from, !.to = to]
    IN  IF from = to THEN Return(req, Ok(1))
        ELSE IF IsOk(got) THEN [Return(req, got) EXCEPT !.hit = TRUE]
        ELSE [req EXCEPT !.pc = "fetch"]

\* A service method calls get_cached_exchange_rate(from, to).
StartRate(r, from, to) ==
    /\ CanStart(r)
    /\ nreq' = nreq + 1
    /\ SetReq(r, get_cached_exchange_rate(exchange_rate_cache, from, to))
    /\ UNCHANGED <<price_cache, exchange_rate_cache, assets, portfolio, tasks, report, accounts>>

\* Where the call goes once fetch_exchange_rate has answered: the ? returns
\* its error, otherwise the rate is cached and returned.
AfterFetchRate(req, f) ==
    [Return(req, f.res) EXCEPT !.called = f.called]

\* The FX cache once fetch_exchange_rate has answered: insert on success.
CacheAfterFetchRate(cache, req, f) ==
    IF IsOk(f.res) THEN CacheInsert(cache, CacheKey(req.from, req.to), f.res.value)
    ELSE cache

\* investments::fetch_exchange_rate(..).await?;
\* exchange_rate_cache.insert(cache_key, rate).await; Ok(rate)
FetchRate(r) ==
    /\ reqs[r].kind = "rate" /\ reqs[r].pc = "fetch"
    /\ \E resp \in RateResponses :
        LET f == fetch_exchange_rate(reqs[r].from, reqs[r].to, resp)
        IN  /\ SetReq(r, AfterFetchRate(reqs[r], f))
            /\ exchange_rate_cache' =
                    CacheAfterFetchRate(exchange_rate_cache, reqs[r], f)
    /\ UNCHANGED <<price_cache, assets, portfolio, nreq, tasks, report, accounts>>

\* -------------------------------------------------------------------- time
\* Time passes: every cache entry is TickStep seconds older.
Tick ==
    /\ price_cache' = Older(price_cache)
    /\ exchange_rate_cache' = Older(exchange_rate_cache)
    /\ UNCHANGED <<assets, portfolio, nreq, reqs, tasks, report, accounts>>

Next ==
    \/ \E r \in ReqIds : StartRefresh(r)
    \/ \E r \in ReqIds, t \in Tickers : StartAdd(r, t)
    \/ \E r \in ReqIds, t \in Currencies : StartRate(r, "USD", t)
    \/ \E r \in ReqIds : GetTickers(r)
    \/ \E r \in ReqIds : JoinAll(r)
    \/ \E r \in ReqIds : AddItem(r)
    \/ \E r \in ReqIds : FetchRate(r)
    \/ \E r \in ReqIds : Respond(r)
    \/ \E r \in ReqIds, t \in Tickers : GetAsset(r, t)
    \/ \E r \in ReqIds, t \in Tickers : FetchIcon(r, t)
    \/ \E r \in ReqIds, t \in Tickers : SaveIcon(r, t)
    \/ \E r \in ReqIds, t \in Tickers : FetchPrice(r, t)
    \/ \E r \in ReqIds, t \in Tickers : Persist(r, t)
    \/ Tick

Spec == Init /\ [][Next]_vars

\* The steps the program takes by itself: the database answers and the
\* executor polls every task.  The steps that wait for an upstream answer
\* (FetchPrice, FetchIcon, FetchRate) are not among them: the client is built
\* without a timeout, so nothing but the answer ends the wait.
ProgramStep ==
    \/ \E r \in ReqIds : GetTickers(r)
    \/ \E r \in ReqIds : JoinAll(r)
    \/ \E r \in ReqIds : AddItem(r)
    \/ \E r \in ReqIds : Respond(r)
    \/ \E r \in ReqIds, t \in Tickers : GetAsset(r, t)
    \/ \E r \in ReqIds, t \in Tickers : SaveIcon(r, t)
    \/ \E r \in ReqIds, t \in Tickers : Persist(r, t)

FairSpec == Init /\ [][Next]_vars /\ WF_vars(ProgramStep)

\* -------------------------------------------------- the valuation functions
service == <<price_cache, exchange_rate_cache, assets, portfolio, nreq, reqs, tasks>>

\* calculate_investment_summary(item, exchange_rate, base_currency)
Summarise ==
    /\ report.fn = "none"
    /\ \E item \in Rows, rate \in RateValues, base \in Currencies :
        report' = [NoReport EXCEPT
                    !.fn = "calculate_investment_summary",
                    !.items = <<item>>, !.rate = rate, !.base = base,
                    !.summary = calculate_investment_summary(item, rate, base)]
    /\ UNCHANGED <<service, accounts>>

\* build_portfolio_response(items, &exchange_rates, &base_currency)
Build ==
    /\ report.fn = "none"
    /\ \E items \in ItemLists, rates \in RateMaps, base \in Currencies :
        report' = [NoReport EXCEPT
                    !.fn = "build_portfolio_response",
                    !.items = items, !.rates = rates, !.base = base,
                    !.response = build_portfolio_response(items, rates, base)]
    /\ UNCHANGED <<service, accounts>>

\* The caller is done with the value.
Drop ==
    /\ report.fn # "none"
    /\ report' = NoReport
    /\ UNCHANGED <<service, accounts>>

ValuationNext == Summarise \/ Build \/ Drop

ValuationSpec == Init /\ [][ValuationNext]_vars

\* --------------------------------------------------------- exchange rates
\* A caller awaits investments::fetch_exchange_rate(client, from, to) itself,
\* as create_transaction does: the call touches neither cache.
CallFetchExchangeRate(r, from, to) ==
    /\ CanStart(r)
    /\ nreq' = nreq + 1
    /\ \E resp \in RateResponses :
        LET f == fetch_exchange_rate(from, to, resp)
            req == [NoReq EXCEPT !.kind = "fetch_rate", !.from = from, !.to = to]
        IN  SetReq(r, [Return(req, f.res) EXCEPT !.called = f.called])
    /\ UNCHANGED <<price_cache, exchange_rate_cache, assets, portfolio, tasks, report, accounts>>

\* The two rate lookups, called with every pair of currencies.
RateNext ==
    \/ \E r \in ReqIds, from \in Currencies, to \in Currencies : StartRate(r, from, to)
    \/ \E r \in ReqIds, from \in Currencies, to \in Currencies :
            CallFetchExchangeRate(r, from, to)
    \/ \E r \in ReqIds : FetchRate(r)
    \/ \E r \in ReqIds : Respond(r)
    \/ Tick

RateSpec == Init /\ [][RateNext]_vars

\* ------------------------------------------------------- legacy catalogs
\* A catalog with legacy rows: no row for AAPL, a row without source for
\* BTC and a row without api_ticker for XRP.
LegacyAssets ==
    [t \in Tickers |->
        CASE t = "BTC" -> SeedAsset("bitcoin", "", "")
          [] t = "XRP" -> SeedAsset("", "BINANCE", "")
          [] OTHER -> NoAsset]

LegacyInit ==
    /\ price_cache = [t \in Tickers |-> NoEntry]
    /\ exchange_rate_cache = [k \in FxKeys |-> NoEntry]
    /\ assets = LegacyAssets
    /\ portfolio = {}
    /\ nreq = 0
    /\ reqs = [r \in ReqIds |-> NoReq]
    /\ tasks = [r \in ReqIds |-> [t \in Tickers |-> NoTask]]
    /\ report = NoReport
    /\ AccountsInit

\* add_investment calls on that catalog.
LegacyNext ==
    \/ \E r \in ReqIds, t \in Tickers : StartAdd(r, t)
    \/ \E r \in ReqIds : AddItem(r)
    \/ \E r \in ReqIds : Respond(r)
    \/ \E r \in ReqIds, t \in Tickers : GetAsset(r, t)
    \/ \E r \in ReqIds, t \in Tickers : FetchPrice(r, t)
    \/ \E r \in ReqIds, t \in Tickers : Persist(r, t)
    \/ Tick

LegacySpec == LegacyInit /\ [][LegacyNext]_vars

\* ---------------------------------------------------------- refresh_access
Finished(call, res) == [call EXCEPT !.pc = "done", !.result = res]

\* find_by_hash_and_user(&hash).await? and the security checks on the row
\* read: unknown, revoked, already rotated, expired.
refresh_access(tbl, token, dbok) ==
    LET call == [NoRefreshCall EXCEPT !.token = token]
    IN  IF ~dbok THEN Finished(call, DatabaseError)
        ELSE IF token \notin DOMAIN tbl
        THEN Finished(call, AuthError("Invalid refresh token"))
        ELSE LET found == [call EXCEPT !.token_row = tbl[token]]
             IN  IF tbl[token].is_revoked
                 THEN Finished(found, AuthError("Token revoked"))
                 ELSE IF tbl[token].replaced_by # 0
                 THEN [found EXCEPT !.pc = "revoke_all"]
                 ELSE IF tbl[token].expired
                 THEN Finished(found, AuthError("Token expired"))
                 ELSE [found EXCEPT !.pc = "generate_tokens"]

\* A client calls refresh_access with a refresh token: one a row has, or
\* one no row has.
StartRefreshAccess(c, token) ==
    /\ c = Len(refresh_calls) + 1
    /\ token \in DOMAIN refresh_tokens \cup {0}
    /\ \E dbok \in BOOLEAN :
        refresh_calls' = Append(refresh_calls, refresh_access(refresh_tokens, token, dbok))
    /\ UNCHANGED <<service, report, refresh_tokens, transactions, transfers>>

\* Mutant: only the rows that have not been rotated are revoked.
revoke_all_for_user_Unrotated(tbl, user_id) ==
    [t \in DOMAIN tbl |->
        IF tbl[t].user_id = user_id /\ tbl[t].replaced_by = 0
        THEN [tbl[t] EXCEPT !.is_revoked = TRUE] ELSE tbl[t]]

\* UPDATE refresh_tokens SET is_revoked = TRUE WHERE user_id = $1
revoke_all_for_user(tbl, user_id) ==
    [t \in DOMAIN tbl |->
        IF tbl[t].user_id = user_id
        THEN [tbl[t] EXCEPT !.is_revoked = TRUE] ELSE tbl[t]]

\* Reuse detected: revoke_all_for_user(token_row.user_id).await? and the
\* security alert.
RevokeAll(c) ==
    /\ refresh_calls[c].pc = "revoke_all"
    /\ \E dbok \in BOOLEAN :
        /\ refresh_tokens' =
                IF dbok
                THEN revoke_all_for_user(refresh_tokens, refresh_calls[c].token_row.user_id)
                ELSE refresh_tokens
        /\ refresh_calls' =
                [refresh_calls EXCEPT ![c] =
                    Finished(@, IF dbok
                                THEN AuthError("Security alert: Token reuse detected")
                                ELSE DatabaseError)]
    /\ UNCHANGED <<service, report, transactions, transfers>>

\* The id of the row an INSERT creates.
NewTokenId(tbl) == Len(tbl) + 1

\* INSERT INTO refresh_tokens (user_id, token_hash, expires_at)
create(tbl, user_id) == Append(tbl, TokenRow(user_id))

\* generate_tokens(token_row.user_id).await?: a new token whose row is
\* created.
GenerateTokens(c) ==
    /\ refresh_calls[c].pc = "generate_tokens"
    /\ NewTokenId(refresh_tokens) \in TokenIds
    /\ \E dbok \in BOOLEAN :
        IF dbok
        THEN /\ refresh_tokens' = create(refresh_tokens, refresh_calls[c].token_row.user_id)
             /\ refresh_calls' =
                    [refresh_calls EXCEPT ![c].new = NewTokenId(refresh_tokens),
                                          ![c].pc = "rotate"]
        ELSE /\ refresh_calls' = [refresh_calls EXCEPT ![c] = Finished(@, DatabaseError)]
             /\ UNCHANGED refresh_tokens
    /\ UNCHANGED <<service, report, transactions, transfers>>

\* refresh_token_repo.rotate(token_row.id, &new_hash).await?; Ok(AuthResponse)
Rotate(c) ==
    /\ refresh_calls[c].pc = "rotate"
    /\ \E dbok \in BOOLEAN :
        /\ refresh_tokens' =
                IF dbok THEN rotate(refresh_tokens, refresh_calls[c].token, refresh_calls[c].new)
                ELSE refresh_tokens
        /\ refresh_calls' =
                [refresh_calls EXCEPT ![c] =
                    Finished(@, IF dbok THEN Ok(refresh_calls[c].new) ELSE DatabaseError)]
    /\ UNCHANGED <<service, report, transactions, transfers>>

\* Seven days pass: the rows there are have expired.
TokensExpire ==
    /\ \E t \in DOMAIN refresh_tokens : ~refresh_tokens[t].expired
    /\ refresh_tokens' =
            [t \in DOMAIN refresh_tokens |-> [refresh_tokens[t] EXCEPT !.expired = TRUE]]
    /\ UNCHANGED <<service, report, refresh_calls, transactions, transfers>>

AuthNext ==
    \/ \E c \in RefreshCalls, token \in TokenIds \cup {0} : StartRefreshAccess(c, token)
    \/ \E c \in DOMAIN refresh_calls : RevokeAll(c)
    \/ \E c \in DOMAIN refresh_calls : GenerateTokens(c)
    \/ \E c \in DOMAIN refresh_calls : Rotate(c)
    \/ TokensExpire

AuthSpec == Init /\ [][AuthNext]_vars

\* ---------------------------------------------------------- transfer_funds
\* The rows of a category in a pocket, and the sum of their amounts.
RowsOf(txs, category, pocket_id) ==
    {x \in txs : x.category = category /\ x.pocket_id = pocket_id}

RECURSIVE AmountSum(_)
AmountSum(rows) ==
    IF rows = {} THEN 0
    ELSE LET x == CHOOSE y \in rows : TRUE IN x.amount + AmountSum(rows \ {x})

\* The balance of a pocket: what came in less what went out.
get_pocket_balance(txs, pocket_id) ==
    OpeningBalance[pocket_id]
        + AmountSum(RowsOf(txs, "Transfer In", pocket_id))
        - AmountSum(RowsOf(txs, "Transfer Out", pocket_id))

\* The validation of the request and the two pocket_repo.get_by_id(..).await?
transfer_funds(source, destination, amount, dbok) ==
    LET call == [NoTransfer EXCEPT !.source = source, !.destination = destination,
                                   !.amount = amount]
    IN  IF amount <= 0
        THEN Finished(call, ValidationError("Transfer amount must be positive"))
        ELSE IF source = destination
        THEN Finished(call, ValidationError("Cannot transfer to the same pocket"))
        ELSE IF ~dbok THEN Finished(call, DatabaseError)
        ELSE IF source \notin Pockets \/ destination \notin Pockets
        THEN Finished(call, NotFoundError("Pocket not found"))
        ELSE [call EXCEPT !.pc = "get_pocket_balance"]

\* A client asks for a transfer.
StartTransfer(c, source, destination, amount) ==
    /\ c = Len(transfers) + 1
    /\ \E dbok \in BOOLEAN :
        transfers' = Append(transfers, transfer_funds(source, destination, amount, dbok))
    /\ UNCHANGED <<service, report, refresh_tokens, refresh_calls, transactions>>

\* if source_balance < req.amount: insufficient funds
CheckBalance(call, source_balance) ==
    IF source_balance < call.amount
    THEN Finished([call EXCEPT !.balance = source_balance],
                  ValidationError("Insufficient funds in source pocket"))
    ELSE [call EXCEPT !.balance = source_balance, !.pc = "get_category"]

\* transaction_repo.get_pocket_balance(user_id, source).await? and the check
GetPocketBalance(c) ==
    /\ transfers[c].pc = "get_pocket_balance"
    /\ \E dbok \in BOOLEAN :
        transfers' =
            [transfers EXCEPT ![c] =
                IF dbok
                THEN CheckBalance(@, get_pocket_balance(transactions, transfers[c].source))
                ELSE Finished(@, DatabaseError)]
    /\ UNCHANGED <<service, report, refresh_tokens, refresh_calls, transactions>>

\* get_category_by_name("Transfer Out").await? and ("Transfer In").await?
GetCategories(c) ==
    /\ transfers[c].pc = "get_category"
    /\ \E dbok \in BOOLEAN :
        transfers' =
            [transfers EXCEPT ![c] =
                IF dbok THEN [@ EXCEPT !.pc = "create_out"] ELSE Finished(@, DatabaseError)]
    /\ UNCHANGED <<service, report, refresh_tokens, refresh_calls, transactions>>

\* The row transaction_repo.create inserts for the call.
Transaction(c, category, pocket_id, amount) ==
    [call |-> c, category |-> category, pocket_id |-> pocket_id, amount |-> amount]

\* 1. Withdraw from Source: transaction_repo.create(.., cat_out.id, ..).await?
CreateOut(c) ==
    /\ transfers[c].pc = "create_out"
    /\ \E dbok \in BOOLEAN :
        IF dbok
        THEN /\ transactions' = transactions \cup
                    {Transaction(c, "Transfer Out", transfers[c].source, transfers[c].amount)}
             /\ transfers' = [transfers EXCEPT ![c].pc = "create_in"]
        ELSE /\ transfers' = [transfers EXCEPT ![c] = Finished(@, DatabaseError)]
             /\ UNCHANGED transactions
    /\ UNCHANGED <<service, report, refresh_tokens, refresh_calls>>

\* 2. Deposit to Destination: transaction_repo.create(.., cat_in.id, ..).await?
CreateIn(c) ==
    /\ transfers[c].pc = "create_in"
    /\ \E dbok \in BOOLEAN :
        IF dbok
        THEN /\ transactions' = transactions \cup
                    {Transaction(c, "Transfer In", transfers[c].destination, transfers[c].amount)}
             /\ transfers' = [transfers EXCEPT ![c] = Finished(@, Ok(0))]
        ELSE /\ transfers' = [transfers EXCEPT ![c] = Finished(@, DatabaseError)]
             /\ UNCHANGED transactions
    /\ UNCHANGED <<service, report, refresh_tokens, refresh_calls>>

TransferNext ==
    \/ \E c \in TransferCalls, source, destination \in PocketIds, amount \in Amounts :
            StartTransfer(c, source, destination, amount)
    \/ \E c \in DOMAIN transfers : GetPocketBalance(c)
    \/ \E c \in DOMAIN transfers : GetCategories(c)
    \/ \E c \in DOMAIN transfers : CreateOut(c)
    \/ \E c \in DOMAIN transfers : CreateIn(c)

TransferSpec == Init /\ [][TransferNext]_vars

\* ---------------------------------------------------------- price adapters
\* The symbols the adapters are asked for, and every answer of an upstream:
\* any outcome, and for a good one its price and the currency of the payload
\* ("" when the payload names none).
ProviderSymbols == {"AAPL", "BTC", "bitcoin", "XRPUSD"}
AdapterResponses ==
    {Response(st, 0, "") : st \in UpstreamStatuses \ {"ok"}}
        \cup {Response("ok", p, c) : p \in Prices, c \in {"", "USD", "SGD"}}

\* fetch_price_yahoo(client, ticker)
CallYahoo ==
    /\ report.fn = "none"
    /\ \E symbol \in ProviderSymbols, resp \in AdapterResponses :
        report' = [NoReport EXCEPT !.fn = "fetch_price_yahoo", !.symbol = symbol,
                                   !.upstream = resp,
                                   !.fetched = fetch_price_yahoo(symbol, resp)]
    /\ UNCHANGED <<service, accounts>>

\* fetch_price_binance(client, ticker)
CallBinance ==
    /\ report.fn = "none"
    /\ \E symbol \in ProviderSymbols, resp \in AdapterResponses :
        report' = [NoReport EXCEPT !.fn = "fetch_price_binance", !.symbol = symbol,
                                   !.upstream = resp,
                                   !.fetched = fetch_price_binance(symbol, resp)]
    /\ UNCHANGED <<service, accounts>>

\* fetch_price_coingecko(client, ticker)
CallCoinGecko ==
    /\ report.fn = "none"
    /\ \E symbol \in ProviderSymbols, resp \in AdapterResponses :
        report' = [NoReport EXCEPT !.fn = "fetch_price_coingecko", !.symbol = symbol,
                                   !.upstream = resp,
                                   !.fetched = fetch_price_coingecko(symbol, resp)]
    /\ UNCHANGED <<service, accounts>>

AdapterNext == CallYahoo \/ CallBinance \/ CallCoinGecko \/ Drop

AdapterSpec == Init /\ [][AdapterNext]_vars

\* ================================================================== claims
Slots == ReqIds \X Tickers
Task(k) == tasks[k[1]][k[2]]
KnownSources == {"YAHOO", "BINANCE", "COINGECKO"}
Returned(r, kind) == reqs[r].kind = kind /\ reqs[r].pc = "done"

\* A step that starts the call k, and a step in which the call k returns.
Launches(k) == tasks[k[1]][k[2]].pc = "none" /\ tasks'[k[1]][k[2]].pc # "none"
Returns(k) == tasks[k[1]][k[2]].pc \notin {"none", "done"} /\ tasks'[k[1]][k[2]].pc = "done"

\* --------------------------------------------------------------------- C1
\* A call that starts while the entry of its ticker is younger than the TTL
\* returns the cached price and sends no request; any other call misses.
C1_LookupRule ==
    \A k \in Slots :
        Launches(k) =>
            IF price_cache[k[2]].present /\ price_cache[k[2]].age < PRICE_TTL
            THEN /\ tasks'[k[1]][k[2]].pc = "done"
                 /\ tasks'[k[1]][k[2]].result = Ok(price_cache[k[2]].value)
                 /\ tasks'[k[1]][k[2]].called = <<>>
            ELSE tasks'[k[1]][k[2]].pc = "get_asset"

C1_OneCallAfterLapse ==
    \A k \in Slots :
        (Task(k).pc = "done" /\ Task(k).stale) => Len(Task(k).called) = 1

C1_AtMostOneCallAfterLapse ==
    \A k \in Slots :
        (Task(k).pc = "done" /\ Task(k).stale) =>
            IF Task(k).asset = ""
            THEN Task(k).called = <<>> /\ Task(k).result = DatabaseError
            ELSE Len(Task(k).called) = 1

\* C1 as stated: within the TTL of a fetched entry a call returns the cached
\* price without an upstream call, and the first call after the TTL has
\* lapsed issues exactly one upstream price call.
C1_Original == [][C1_LookupRule /\ C1_OneCallAfterLapse']_vars

\* C1 amended: within the TTL of a fetched entry a call returns the cached
\* price without an upstream call; a call after the TTL has lapsed issues one
\* upstream price call when its get_asset succeeds, and none (returning the
\* database error) when get_asset fails.
C1_CacheTtl == [][C1_LookupRule /\ C1_AtMostOneCallAfterLapse']_vars

C1_Witness ==
    \E k \in Slots :
        /\ Task(k).pc = "done" /\ Task(k).stale
        /\ Len(Task(k).called) = 1 /\ IsOk(Task(k).result)

\* --------------------------------------------------------------------- C2
Replaced(old, new) ==
    new.present # old.present \/ new.value # old.value \/ new.age < old.age

C2_PriceInsertsOnlyOnOk ==
    \A t \in Tickers :
        Replaced(price_cache[t], price_cache'[t]) =>
            \E r \in ReqIds :
                /\ Returns(<<r, t>>)
                /\ IsOk(tasks'[r][t].result)
                /\ price_cache'[t] =
                     [present |-> TRUE, value |-> tasks'[r][t].result.value, age |-> 0]

C2_PriceErrStoresNothing ==
    \A k \in Slots :
        (Returns(k) /\ IsErr(tasks'[k[1]][k[2]].result)) => price_cache' = price_cache

C2_RateInsertsOnlyOnOk ==
    \A key \in FxKeys :
        Replaced(exchange_rate_cache[key], exchange_rate_cache'[key]) =>
            \E r \in ReqIds :
                /\ reqs[r].kind = "rate" /\ reqs[r].pc = "fetch" /\ reqs'[r].pc = "done"
                /\ CacheKey(reqs[r].from, reqs[r].to) = key
                /\ IsOk(reqs'[r].result)
                /\ exchange_rate_cache'[key] =
                     [present |-> TRUE, value |-> reqs'[r].result.value, age |-> 0]

C2_RateErrStoresNothing ==
    \A r \in ReqIds :
        (reqs[r].kind = "rate" /\ reqs[r].pc = "fetch" /\ reqs'[r].pc = "done"
            /\ IsErr(reqs'[r].result)) => exchange_rate_cache' = exchange_rate_cache

C2_NextCallTriesAgain ==
    /\ \A k \in Slots :
        (Launches(k) /\ ~price_cache[k[2]].present) => tasks'[k[1]][k[2]].pc = "get_asset"
    /\ \A r \in ReqIds :
        (reqs[r].pc = "none" /\ reqs'[r].kind = "rate" /\ reqs'[r].from # reqs'[r].to
            /\ ~exchange_rate_cache[CacheKey(reqs'[r].from, reqs'[r].to)].present)
        => reqs'[r].pc = "fetch"

\* C2: a call of ensure_price_fresh or get_cached_exchange_rate that returns
\* an error stores no cache entry (entries are stored only by calls that
\* return Ok, with the value they return), so the next call for the key finds
\* the cache as it was and goes to the upstream again.
C2_FailureNotCached ==
    [][/\ C2_PriceInsertsOnlyOnOk /\ C2_PriceErrStoresNothing
       /\ C2_RateInsertsOnlyOnOk /\ C2_RateErrStoresNothing
       /\ C2_NextCallTriesAgain]_vars

C2_Witness ==
    \E k \in Slots :
        /\ Task(k).pc = "done" /\ IsErr(Task(k).result)
        /\ Len(Task(k).called) = 1
        /\ ~price_cache[k[2]].present

\* --------------------------------------------------------------------- C3
Attempted(r) == {t \in Tickers : tasks[r][t].pc # "none"}

\* C3: once the ticker list was read, refresh_portfolio returns Ok with the
\* number of tickers it attempted, whichever of their refreshes failed.
C3_CountsAttempted ==
    \A r \in ReqIds :
        (Returned(r, "refresh") /\ reqs[r].listed) =>
            /\ Attempted(r) = reqs[r].tickers
            /\ reqs[r].result = Ok(Cardinality(Attempted(r)))

C3_Witness ==
    \E r \in ReqIds :
        /\ Returned(r, "refresh") /\ reqs[r].listed
        /\ reqs[r].result = Ok(2)
        /\ \E t, u \in reqs[r].tickers :
            IsErr(tasks[r][t].result) /\ IsOk(tasks[r][u].result)

\* --------------------------------------------------------------------- C4
\* C4: when ensure_price_fresh fails for the new ticker, add_investment
\* returns that error and the portfolio is left as it was.
C4_AddSurfacesError ==
    [][\A r \in ReqIds :
        (/\ reqs[r].kind = "add" /\ reqs[r].pc = "ensure" /\ reqs'[r].pc = "done"
         /\ IsErr(tasks[r][reqs[r].ticker].result))
        => /\ reqs'[r].result = tasks[r][reqs[r].ticker].result
           /\ portfolio' = portfolio]_vars

C4_Witness ==
    \E r \in ReqIds :
        /\ Returned(r, "add")
        /\ tasks[r][reqs[r].ticker].result = ValidationError("Unknown price source")
        /\ reqs[r].result = tasks[r][reqs[r].ticker].result
        /\ reqs[r].ticker \notin portfolio

\* --------------------------------------------------------------------- C5
C5_WriteThenCache ==
    \A k \in Slots :
        (Returns(k) /\ tasks[k[1]][k[2]].pc = "persist" /\ IsOk(tasks'[k[1]][k[2]].result))
        => /\ assets'[k[2]].current_price = tasks[k[1]][k[2]].fetched.value
           /\ price_cache'[k[2]] =
                [present |-> TRUE, value |-> tasks[k[1]][k[2]].fetched.value, age |-> 0]

C5_FailureIsLocal ==
    \A r \in ReqIds : \A t, u \in Tickers :
        (t # u /\ Returns(<<r, u>>) /\ IsErr(tasks'[r][u].result))
        => /\ tasks'[r][t] = tasks[r][t]
           /\ assets'[t] = assets[t]
           /\ price_cache'[t] = price_cache[t]

C5_SettledAtReturn ==
    \A r \in ReqIds :
        (Returned(r, "refresh") /\ reqs[r].listed) =>
            \A t \in reqs[r].tickers :
                /\ tasks[r][t].pc = "done"
                /\ IsOk(tasks[r][t].fetched) =>
                        IF tasks[r][t].wrote
                        THEN tasks[r][t].result = Ok(tasks[r][t].fetched.value)
                        ELSE tasks[r][t].result = DatabaseError

\* C5: in refresh_portfolio a failing ticker changes nothing of another
\* ticker, and every ticker whose fetch and catalog write succeed has written
\* its price to the catalog and to the cache before refresh_portfolio returns.
C5_Isolation == [][C5_WriteThenCache /\ C5_FailureIsLocal /\ C5_SettledAtReturn']_vars

C5_Witness ==
    \E r \in ReqIds :
        /\ Returned(r, "refresh")
        /\ \E t, u \in reqs[r].tickers :
            /\ IsErr(tasks[r][t].result)
            /\ tasks[r][u].wrote
            /\ assets[u].current_price = tasks[r][u].result.value
            /\ price_cache[u].present /\ price_cache[u].value = tasks[r][u].result.value

\* --------------------------------------------------------------------- C6
\* C6: when refresh_portfolio has returned, every ensure_price_fresh call it
\* launched has completed.
C6_AllSettled ==
    \A r \in ReqIds :
        Returned(r, "refresh") => \A t \in Tickers : tasks[r][t].pc \in {"none", "done"}

C6_Witness ==
    \E r \in ReqIds :
        /\ Returned(r, "refresh")
        /\ Cardinality({t \in Tickers : tasks[r][t].pc = "done"}) = 2

\* --------------------------------------------------------------------- C7
\* C7: one ensure_price_fresh call sends at most one price request, to the
\* adapter of the asset's source, and returns that adapter's error as it is.
C7_NoFallback ==
    \A k \in Slots :
        /\ Len(Task(k).called) <= 1
        /\ Task(k).called # <<>> => Task(k).called = <<Task(k).source>>
        /\ (Task(k).pc = "done" /\ IsErr(Task(k).fetched)) => Task(k).result = Task(k).fetched
        /\ Task(k).asset = "found" => Task(k).source = SourceOf(assets[k[2]])
        /\ Task(k).asset = "absent" => Task(k).source = "YAHOO"

C7_Witness ==
    \E k \in Slots :
        /\ Task(k).pc = "done" /\ IsErr(Task(k).result)
        /\ Task(k).called = <<"COINGECKO">>

\* --------------------------------------------------------------------- C8
Unsupported(t) == assets[t].exists /\ SourceOf(assets[t]) \notin KnownSources
QuoteUnavailableKinds ==
    {fetch_price_yahoo("AAPL", Response(st, 0, "")).res.kind : st \in UpstreamStatuses \ {"ok"}}
        \cup {fetch_price_binance("AAPL", Response(st, 0, "")).res.kind : st \in UpstreamStatuses \ {"ok"}}
        \cup {fetch_price_coingecko("AAPL", Response(st, 0, "")).res.kind : st \in UpstreamStatuses \ {"ok"}}
QuoteUnavailableMsgs ==
    {fetch_price_yahoo("AAPL", Response(st, 0, "")).res.msg : st \in UpstreamStatuses \ {"ok"}}
        \cup {fetch_price_binance("AAPL", Response(st, 0, "")).res.msg : st \in UpstreamStatuses \ {"ok"}}
        \cup {fetch_price_coingecko("AAPL", Response(st, 0, "")).res.msg : st \in UpstreamStatuses \ {"ok"}}

C8_NothingDone ==
    /\ \A k \in Slots :
        (Task(k).pc = "done" /\ Task(k).asset = "found" /\ Unsupported(k[2])) =>
            /\ IsErr(Task(k).result)
            /\ Task(k).called = <<>>
            /\ ~Task(k).wrote
    /\ \A t \in Tickers :
        Unsupported(t) => assets[t] = SeedAssets[t] /\ ~price_cache[t].present

WriteFailed(k) == Task(k).pc = "done" /\ IsOk(Task(k).fetched) /\ ~Task(k).wrote

\* C9 as stated: when the fetch succeeds and update_asset_price fails,
\* ensure_price_fresh still returns the fetched price.
C9_Original ==
    \A k \in Slots : WriteFailed(k) => Task(k).result = Ok(Task(k).fetched.value)

\* C9 amended: when the fetch succeeds and update_asset_price fails,
\* ensure_price_fresh returns the database error; the failure is non-fatal
\* one level up only, in refresh_portfolio, which still returns Ok(count),
\* while add_investment returns the error.
C9_WriteFailureReturned ==
    /\ \A k \in Slots :
        (Task(k).pc = "done" /\ IsOk(Task(k).fetched)) =>
            IF Task(k).wrote THEN Task(k).result = Ok(Task(k).fetched.value)
            ELSE Task(k).result = DatabaseError
    /\ \A r \in ReqIds :
        (Returned(r, "refresh") /\ reqs[r].listed) => reqs[r].result = Ok(reqs[r].count)
    /\ \A r \in ReqIds :
        (Returned(r, "add") /\ WriteFailed(<<r, reqs[r].ticker>>)) =>
            reqs[r].result = DatabaseError

C9_Witness ==
    \E r \in ReqIds :
        /\ Returned(r, "refresh") /\ IsOk(reqs[r].result)
        /\ \E t \in reqs[r].tickers :
            WriteFailed(<<r, t>>) /\ tasks[r][t].result = DatabaseError

\* -------------------------------------------------------------------- C10
\* C10: however the icon branch ends, the call goes on to the price fetch
\* without a result, and what it returns comes from the price path: the
\* adapter's error, the database error of the price write, or the price.
C10_IconSwallowed ==
    \A k \in Slots :
        /\ Task(k).icon = "found" => Task(k).pc = "save_icon" /\ Task(k).result = NoResult
        /\ Task(k).icon \in {"error", "none", "saved", "save_failed"} =>
                Task(k).pc = "fetch" /\ Task(k).result = NoResult
        /\ (Task(k).pc = "done" /\ Task(k).asset = "found") =>
                \/ IsErr(Task(k).fetched) /\ Task(k).result = Task(k).fetched
                \/ IsOk(Task(k).fetched)
                    /\ Task(k).result \in {Ok(Task(k).fetched.value), DatabaseError}

C10_Witness ==
    \E k \in Slots :
        /\ Task(k).icon \in {"error", "none", "save_failed"}
        /\ Task(k).pc = "fetch"
        /\ assets[k[2]].icon_url = ""

\* -------------------------------------------------------------------- C11
Live(e, ttl) == e.present /\ ~IsExpired(e, ttl)
StartsRate(r) == reqs[r].pc = "none" /\ reqs'[r].kind = "rate"
ReturnsRate(r) == reqs[r].kind = "rate" /\ reqs[r].pc = "fetch" /\ reqs'[r].pc = "done"

\* C11 as stated: whatever the order in which concurrent calls complete their
\* fetches and inserts, a quote stored in the price cache is the one the most
\* recent successful fetch of the ticker returned (the quote of the storing
\* call, or an equal one stored before it), unless the call that made that
\* fetch has not stored its quote (it is about to, or its write failed).
C11_Original ==
    [][\A k \in Slots :
        (Returns(k) /\ tasks'[k[1]][k[2]].wrote) =>
            \/ tasks[k[1]][k[2]].newest
            \/ \E q \in ReqIds : tasks[q][k[2]].newest
            \/ /\ price_cache[k[2]].present
               /\ price_cache'[k[2]].value = price_cache[k[2]].value]_vars

\* -------------------------------------------------------------------- C12
\* C12 as stated: while an entry is live, the value its cache holds for the
\* key does not change.
C12_Original ==
    [][/\ \A t \in Tickers :
            Live(price_cache[t], PRICE_TTL) =>
                price_cache'[t].present /\ price_cache'[t].value = price_cache[t].value
       /\ \A key \in FxKeys :
            Live(exchange_rate_cache[key], EXCHANGE_RATE_TTL) =>
                /\ exchange_rate_cache'[key].present
                /\ exchange_rate_cache'[key].value = exchange_rate_cache[key].value]_vars

\* -------------------------------------------------------------------- C20
C20_PriceHit ==
    \A k \in Slots :
        (Launches(k) /\ Live(price_cache[k[2]], PRICE_TTL)) =>
            /\ tasks'[k[1]][k[2]] =
                    [NoTask EXCEPT !.pc = "done", !.hit = TRUE,
                                   !.result = Ok(price_cache[k[2]].value)]
            /\ assets' = assets
            /\ price_cache' = price_cache

C20_RateHit ==
    \A r \in ReqIds :
        (/\ StartsRate(r)
         /\ reqs'[r].from # reqs'[r].to
         /\ Live(exchange_rate_cache[CacheKey(reqs'[r].from, reqs'[r].to)],
                 EXCHANGE_RATE_TTL)) =>
            /\ reqs'[r].pc = "done"
            /\ reqs'[r].result =
                    Ok(exchange_rate_cache[CacheKey(reqs'[r].from, reqs'[r].to)].value)
            /\ reqs'[r].called = <<>>
            /\ exchange_rate_cache' = exchange_rate_cache

C20_HitStaysClean ==
    \A k \in Slots :
        Task(k).hit =>
            /\ Task(k).pc = "done" /\ Task(k).asset = "" /\ Task(k).icon = ""
            /\ Task(k).called = <<>> /\ ~Task(k).wrote

\* C20: a call that finds a live entry returns its value at once: the price
\* call reads no asset, sends no price or icon request and writes nothing to
\* the catalog, and the rate call sends no request; the caches stay as they
\* were.
C20_HitNoIo == [][C20_PriceHit /\ C20_RateHit /\ C20_HitStaysClean']_vars

C20_Witness ==
    \E k \in Slots :
        /\ Task(k).hit /\ Task(k).pc = "done"
        /\ Live(price_cache[k[2]], PRICE_TTL)
        /\ Task(k).result = Ok(price_cache[k[2]].value)
        /\ assets[k[2]].current_price = price_cache[k[2]].value

C20_RateWitness ==
    \E r \in ReqIds : Returned(r, "rate") /\ reqs[r].hit /\ reqs[r].called = <<>>

\* ------------------------------------------------------ get_portfolio_list
\* A handler calls service.get_portfolio_list(user_id); the calls followed
\* here come one after the other.
StartList(r) ==
    /\ CanStart(r)
    /\ FreeSlots = ReqIds
    /\ nreq' = nreq + 1
    /\ SetReq(r, [NoReq EXCEPT !.kind = "list", !.pc = "get_tickers"])
    /\ UNCHANGED <<price_cache, exchange_rate_cache, assets, portfolio, tasks, report, accounts>>

\* portfolio_repo.get_tickers(user_id).await? and the first poll of join_all.
ListTickers(r) ==
    /\ reqs[r].kind = "list" /\ reqs[r].pc = "get_tickers"
    /\ \E dbok \in BOOLEAN :
        IF ~dbok
        THEN /\ SetReq(r, Return(reqs[r], DatabaseError))
             /\ UNCHANGED tasks
        ELSE LET tickers == get_tickers(portfolio)
             IN  /\ SetReq(r, [reqs[r] EXCEPT !.listed = TRUE, !.tickers = tickers,
                                              !.pc = "join"])
                 /\ tasks' = [tasks EXCEPT ![r] = LaunchAll(tickers, price_cache)]
    /\ UNCHANGED <<price_cache, exchange_rate_cache, assets, portfolio, nreq, report, accounts>>

\* Mutant: the Err of a refresh is returned by the call.
AfterListJoin_Propagate(r) ==
    IF \E t \in reqs[r].tickers : IsErr(tasks[r][t].result)
    THEN Return(reqs[r],
                (CHOOSE res \in {tasks[r][t].result : t \in reqs[r].tickers} : IsErr(res)))
    ELSE [reqs[r] EXCEPT !.pc = "get_base_currency"]

\* Each closure has logged its Err and yielded (): the call goes on.
AfterListJoin(r) == [reqs[r] EXCEPT !.pc = "get_base_currency"]

\* futures::future::join_all(fetch_futures).await
ListJoinAll(r) ==
    /\ reqs[r].kind = "list" /\ reqs[r].pc = "join"
    /\ JoinAllReady(r)
    /\ SetReq(r, AfterListJoin(r))
    /\ UNCHANGED <<price_cache, exchange_rate_cache, assets, portfolio, nreq, tasks, report, accounts>>

\* settings_repo.get_base_currency(user_id).await?: the user's setting.
GetBaseCurrency(r) ==
    /\ reqs[r].kind = "list" /\ reqs[r].pc = "get_base_currency"
    /\ \E dbok \in BOOLEAN, base \in Currencies :
        SetReq(r, IF dbok
                  THEN [reqs[r] EXCEPT !.base = base, !.pc = "get_all_joined"]
                  ELSE Return(reqs[r], DatabaseError))
    /\ UNCHANGED <<price_cache, exchange_rate_cache, assets, portfolio, nreq, tasks, report, accounts>>

\* The position of the user in a ticker: the portfolio rows of the model
\* carry one quantity and one average buy price.
PositionQuantity == Dec(1)
PositionAvgBuyPrice == Dec(2)

\* portfolio p LEFT JOIN assets a: one row per position, current_price
\* unwrap_or(ZERO), the currency of the asset row or None.
TickerOrder == <<"AAPL", "BTC", "XRP">>
JoinedRow(tbl, t) ==
    Row(t, PositionQuantity, PositionAvgBuyPrice, Dec(tbl[t].current_price),
        tbl[t].currency)
RECURSIVE JoinFrom(_, _, _)
JoinFrom(i, rows, tbl) ==
    IF i > Len(TickerOrder) THEN <<>>
    ELSE (IF TickerOrder[i] \in rows THEN <<JoinedRow(tbl, TickerOrder[i])>> ELSE <<>>)
            \o JoinFrom(i + 1, rows, tbl)
get_all_joined(rows, tbl) == JoinFrom(1, rows, tbl)

\* items.iter().filter_map(|item| item.currency.clone())
\*      .filter(|c| c != &base_currency).collect::<HashSet<_>>()
unique_currencies(items, base_currency) ==
    {items[i].currency : i \in 1..Len(items)} \ {"", base_currency}

\* portfolio_repo.get_all_joined(user_id).await? and unique_currencies.
GetAllJoined(r) ==
    /\ reqs[r].kind = "list" /\ reqs[r].pc = "get_all_joined"
    /\ \E dbok \in BOOLEAN :
        SetReq(r, IF dbok
                  THEN LET items == get_all_joined(portfolio, assets)
                       IN  [reqs[r] EXCEPT
                                !.items = items,
                                !.currencies = unique_currencies(items, reqs[r].base),
                                !.pc = "rates"]
                  ELSE Return(reqs[r], DatabaseError))
    /\ UNCHANGED <<price_cache, exchange_rate_cache, assets, portfolio, nreq, tasks, report, accounts>>

\* exchange_rates.insert(currency, rate): the next turn of the loop.
RateResolved(req, currency, rate) ==
    [req EXCEPT
        !.rates = [c \in DOMAIN req.rates \cup {currency} |->
                        IF c = currency THEN Dec(rate) ELSE req.rates[c]],
        !.currencies = req.currencies \ {currency},
        !.from = "", !.to = "", !.pc = "rates"]

\* for currency in unique_currencies: get_cached_exchange_rate(&currency,
\* &base_currency) up to its first suspension, a hit going on in the loop.
ListRate(r) ==
    /\ reqs[r].kind = "list" /\ reqs[r].pc = "rates"
    /\ \E currency \in reqs[r].currencies :
        LET call == get_cached_exchange_rate(exchange_rate_cache, currency, reqs[r].base)
        IN  SetReq(r, IF call.pc = "done"
                      THEN RateResolved(reqs[r], currency, call.result.value)
                      ELSE [reqs[r] EXCEPT !.from = currency, !.to = reqs[r].base,
                                           !.pc = "rate_fetch"])
    /\ UNCHANGED <<price_cache, exchange_rate_cache, assets, portfolio, nreq, tasks, report, accounts>>

\* The miss of that call: fetch_exchange_rate(..).await?, the insert into the
\* cache, and the .await? of the loop.
ListFetchRate(r) ==
    /\ reqs[r].kind = "list" /\ reqs[r].pc = "rate_fetch"
    /\ \E resp \in RateResponses :
        LET f == fetch_exchange_rate(reqs[r].from, reqs[r].to, resp)
        IN  /\ SetReq(r, IF IsOk(f.res)
                          THEN RateResolved(reqs[r], reqs[r].from, f.res.value)
                          ELSE Return(reqs[r], f.res))
            /\ exchange_rate_cache' =
                    CacheAfterFetchRate(exchange_rate_cache, reqs[r], f)
    /\ UNCHANGED <<price_cache, assets, portfolio, nreq, tasks, report, accounts>>

\* Mutant: the response is built with the rates at hand.
LoopDone_Early(req) == TRUE

\* The for loop has run through unique_currencies.
LoopDone(req) == req.currencies = {}

\* Ok(build_portfolio_response(items, &exchange_rates, &base_currency))
BuildResponse(r) ==
    /\ reqs[r].kind = "list" /\ reqs[r].pc = "rates"
    /\ LoopDone(reqs[r])
    /\ SetReq(r, [Return(reqs[r], Ok(0)) EXCEPT
                    !.response = build_portfolio_response(reqs[r].items,
                                                          reqs[r].rates, reqs[r].base)])
    /\ UNCHANGED <<price_cache, exchange_rate_cache, assets, portfolio, nreq, tasks, report, accounts>>

\* The portfolio once the user holds AAPL and BTC.
ListInit ==
    /\ price_cache = [t \in Tickers |-> NoEntry]
    /\ exchange_rate_cache = [k \in FxKeys |-> NoEntry]
    /\ assets = SeedAssets
    /\ portfolio = {"AAPL", "BTC"}
    /\ nreq = 0
    /\ reqs = [r \in ReqIds |-> NoReq]
    /\ tasks = [r \in ReqIds |-> [t \in Tickers |-> NoTask]]
    /\ report = NoReport
    /\ AccountsInit

ListNext ==
    \/ \E r \in ReqIds : StartList(r)
    \/ \E r \in ReqIds : ListTickers(r)
    \/ \E r \in ReqIds : ListJoinAll(r)
    \/ \E r \in ReqIds : GetBaseCurrency(r)
    \/ \E r \in ReqIds : GetAllJoined(r)
    \/ \E r \in ReqIds : ListRate(r)
    \/ \E r \in ReqIds : ListFetchRate(r)
    \/ \E r \in ReqIds : BuildResponse(r)
    \/ \E r \in ReqIds : Respond(r)
    \/ \E r \in ReqIds, t \in Tickers : GetAsset(r, t)
    \/ \E r \in ReqIds, t \in Tickers : FetchIcon(r, t)
    \/ \E r \in ReqIds, t \in Tickers : SaveIcon(r, t)
    \/ \E r \in ReqIds, t \in Tickers : FetchPrice(r, t)
    \/ \E r \in ReqIds, t \in Tickers : Persist(r, t)
    \/ Tick

ListSpec == ListInit /\ [][ListNext]_vars

\* --------------------------------------------------------------------- C13
\* The currencies get_portfolio_list needs a rate for.
Needed(r) == unique_currencies(reqs[r].items, reqs[r].base)
InFlight(r) ==
    \/ \E t \in Tickers : tasks[r][t].pc \notin {"none", "done"}
    \/ reqs[r].pc = "rate_fetch"

RateKinds == {"rate", "fetch_rate"}
SameCurrency(r) == reqs[r].kind \in RateKinds /\ reqs[r].from = reqs[r].to

\* C14: a rate lookup whose two currencies are the same, through
\* fetch_exchange_rate or through get_cached_exchange_rate, has returned as
\* soon as it is called, with exactly 1 and without any upstream request;
\* the cache was neither read for a hit nor written.
C14_SameCurrencyIsOne ==
    /\ \A r \in ReqIds :
            SameCurrency(r) =>
                /\ reqs[r].pc = "done"
                /\ reqs[r].result = Ok(1)
                /\ reqs[r].called = <<>>
                /\ ~reqs[r].hit
    /\ \A x \in Currencies : ~exchange_rate_cache[CacheKey(x, x)].present

C14_Witness ==
    \E r \in ReqIds, q \in ReqIds :
        /\ Returned(r, "rate") /\ reqs[r].from = "SGD" /\ reqs[r].to = "SGD"
        /\ reqs[r].result = Ok(1) /\ reqs[r].called = <<>>
        /\ Returned(q, "fetch_rate") /\ reqs[q].from = "USD" /\ reqs[q].to = "USD"
        /\ reqs[q].result = Ok(1) /\ reqs[q].called = <<>>

\* ------------------------------------------------------------- C15 .. C19
Built == report.fn = "build_portfolio_response"
Summarised == report.fn = "calculate_investment_summary"
Holding(i) == report.items[i]
Investment(i) == report.response.investments[i]
RateOf(i) == get_exchange_rate(AssetCurrency(Holding(i)), report.base, report.rates)

\* The sums of C15 over the first n holdings, each with its own rate.
RECURSIVE CostSum(_)
CostSum(n) ==
    IF n = 0 THEN 0
    ELSE CostSum(n - 1)
            + Mul(Mul(Holding(n).quantity, Holding(n).avg_buy_price), RateOf(n))
RECURSIVE ChangeSum(_)
ChangeSum(n) ==
    IF n = 0 THEN 0
    ELSE ChangeSum(n - 1)
            + (Mul(Mul(Holding(n).quantity, Holding(n).current_price), RateOf(n))
                - Mul(Mul(Holding(n).quantity, Holding(n).avg_buy_price), RateOf(n)))

\* C15: build_portfolio_response returns total_cost = sum of
\* quantity*avg_buy_price*rate and absolute_change = sum of
\* (quantity*current_price*rate - quantity*avg_buy_price*rate), each holding
\* with its own rate; both are 0 and the list is empty for no holding, and the
\* list has one summary per holding in input order.
C15_Totals ==
    Built =>
        /\ report.response.total_cost = CostSum(Len(report.items))
        /\ report.response.absolute_change = ChangeSum(Len(report.items))
        /\ Len(report.response.investments) = Len(report.items)
        /\ \A i \in 1..Len(report.items) :
                Investment(i) =
                    calculate_investment_summary(Holding(i), RateOf(i), report.base)
        /\ report.items = <<>> =>
                /\ report.response.total_cost = 0
                /\ report.response.absolute_change = 0
                /\ report.response.investments = <<>>

\* Two holdings of 2 at 2 and of 1 at 2, now at 3 and 1, base USD: cost 6,
\* change +2 - 1 = 1.
C15_Witness ==
    /\ Built
    /\ report.items = <<Row("AAPL", Dec(2), Dec(2), Dec(3), "USD"),
                        Row("AAPL", Dec(1), Dec(2), Dec(1), "")>>
    /\ report.base = "USD"
    /\ report.response.total_cost = Dec(6)
    /\ report.response.absolute_change = Dec(1)

AbsentRate(i) ==
    /\ AssetCurrency(Holding(i)) # report.base
    /\ AssetCurrency(Holding(i)) \notin DOMAIN report.rates

\* C16: a holding whose currency differs from the base and has no rate in
\* the map is valued with rate 1, and the response still has a summary for
\* every holding and both totals.
C16_AbsentRate ==
    Built =>
        /\ Len(report.response.investments) = Len(report.items)
        /\ report.response.total_cost # DivByZero
        /\ report.response.absolute_change # DivByZero
        /\ \A i \in 1..Len(report.items) :
            AbsentRate(i) =>
                /\ Investment(i).current_price_converted = Holding(i).current_price
                /\ Investment(i).avg_buy_price_converted = Holding(i).avg_buy_price
                /\ Investment(i).total_value_converted = Investment(i).total_value

C16_Witness ==
    /\ Built /\ Len(report.items) = 2
    /\ AbsentRate(1) /\ Holding(1).avg_buy_price > 0
    /\ ~AbsentRate(2) /\ RateOf(2) = Dec(2)
    /\ report.response.total_cost =
            Mul(Holding(1).quantity, Holding(1).avg_buy_price)
                + 2 * Mul(Holding(2).quantity, Holding(2).avg_buy_price)

\* C17: with avg_buy_price 0 the change is exactly 0, whatever the current
\* price, quantity and rate, and no division by zero is made.
C17_ZeroAvg ==
    /\ Summarised =>
            /\ report.summary.change_pct # DivByZero
            /\ Holding(1).avg_buy_price = 0 => report.summary.change_pct = 0
    /\ Built =>
            \A i \in 1..Len(report.items) :
                /\ Investment(i).change_pct # DivByZero
                /\ Holding(i).avg_buy_price = 0 => Investment(i).change_pct = 0

C17_Witness ==
    /\ Summarised
    /\ Holding(1).avg_buy_price = 0 /\ Holding(1).current_price = Dec(3)
    /\ report.rate = Half
    /\ report.summary.change_pct = 0

\* C18: a holding whose currency (USD when none is recorded) is the base
\* currency keeps its prices exactly, also when the map has a rate other
\* than 1 for that currency.
C18_SameCurrency ==
    Built =>
        \A i \in 1..Len(report.items) :
            AssetCurrency(Holding(i)) = report.base =>
                /\ Investment(i).current_price_converted = Holding(i).current_price
                /\ Investment(i).avg_buy_price_converted = Holding(i).avg_buy_price

C18_Witness ==
    /\ Built /\ Len(report.items) = 1
    /\ Holding(1).currency = "" /\ report.base = "USD"
    /\ "USD" \in DOMAIN report.rates /\ report.rates["USD"] = Dec(2)
    /\ Investment(1).current_price_converted = Holding(1).current_price
    /\ Holding(1).avg_buy_price > 0

\* C19: with avg_buy_price > 0 the change is
\* (current_price - avg_buy_price) / avg_buy_price * 100 of the native
\* prices, for every rate and base currency.
C19_PctNative ==
    Summarised =>
        (Holding(1).avg_buy_price > 0 =>
            report.summary.change_pct =
                Mul(Div(Holding(1).current_price - Holding(1).avg_buy_price,
                        Holding(1).avg_buy_price), Dec(100)))

C19_Witness ==
    /\ Summarised
    /\ Holding(1).avg_buy_price = Dec(2) /\ Holding(1).current_price = Dec(3)
    /\ report.rate = Dec(2) /\ report.base = "SGD"
    /\ report.summary.change_pct = Dec(50)
    /\ report.summary.current_price_converted = Dec(6)

\* --------------------------------------------------------------------- C30
RECURSIVE ValueSum(_)
ValueSum(n) ==
    IF n = 0 THEN 0 ELSE ValueSum(n - 1) + Investment(n).total_value_converted

AdapterCalled ==
    report.fn \in {"fetch_price_yahoo", "fetch_price_binance", "fetch_price_coingecko"}
\* A non-success HTTP status, an unparsable payload, an empty result set.
Unavailable == report.upstream.status \in {"http_error", "bad_payload", "no_data"}

\* C22 as stated: for a non-success HTTP status, an unparsable payload or an
\* empty result set every price adapter returns an error of the kind of an
\* unavailable quote that carries the symbol asked for and a cause, and never
\* a price.
C22_Original ==
    (AdapterCalled /\ Unavailable) =>
        /\ IsErr(report.fetched.res)
        /\ report.fetched.res.kind \in QuoteUnavailableKinds
        /\ report.fetched.res.msg # ""
        /\ report.fetched.res.ticker = report.symbol

\* --------------------------------------------------------------------- C21
\* The call of slot k has read the catalog and chosen its provider.
Chosen(k) == Task(k).asset \in {"found", "absent"}

\* C21: without a catalog row the call asks YAHOO for the raw ticker; with a
\* row, a missing source is YAHOO and a missing api_ticker is the raw ticker,
\* each on its own; the request goes to the adapter so chosen.
C21_DefaultsToYahoo ==
    \A k \in Slots :
        Chosen(k) =>
            /\ ~assets[k[2]].exists =>
                    /\ Task(k).asset = "absent"
                    /\ Task(k).source = "YAHOO" /\ Task(k).api_ticker = k[2]
            /\ (assets[k[2]].exists /\ assets[k[2]].source = "") =>
                    /\ Task(k).source = "YAHOO"
                    /\ assets[k[2]].api_ticker # "" =>
                            Task(k).api_ticker = assets[k[2]].api_ticker
            /\ (assets[k[2]].exists /\ assets[k[2]].api_ticker = "") =>
                    /\ Task(k).api_ticker = k[2]
                    /\ assets[k[2]].source # "" => Task(k).source = assets[k[2]].source
            /\ Task(k).called \in {<<>>, <<Task(k).source>>}
            /\ Task(k).fetched # NoResult => Task(k).called = <<Task(k).source>>

C21_Witness ==
    \E k \in Slots, j \in Slots :
        /\ k[2] = "AAPL" /\ ~assets["AAPL"].exists
        /\ Task(k).pc = "done" /\ IsOk(Task(k).result)
        /\ Task(k).called = <<"YAHOO">> /\ Task(k).api_ticker = "AAPL"
        /\ j[2] = "XRP" /\ Task(j).called = <<"BINANCE">> /\ Task(j).api_ticker = "XRP"

\* --------------------------------------------------------------------- C27
Inserted(t) ==
    /\ price_cache'[t].present
    /\ ~price_cache[t].present \/ price_cache'[t].age < price_cache[t].age
            \/ price_cache'[t].value # price_cache[t].value

\* C27 as stated: a value enters the price cache only when the call has
\* fetched it and written it to the ticker's catalog row, so the row holds
\* it as the last known price at that moment; a failed fetch or a failed
\* write inserts nothing.
C27_Original ==
    [][\A t \in Tickers :
        Inserted(t) =>
            /\ assets'[t].exists
            /\ assets'[t].current_price = price_cache'[t].value
            /\ \E r \in ReqIds :
                    /\ tasks[r][t].pc = "persist" /\ IsOk(tasks[r][t].fetched)
                    /\ tasks'[r][t].wrote]_vars

\* --------------------------------------------------------------------- C24
ListReturns(r) == reqs[r].kind = "list" /\ reqs[r].pc # "done" /\ reqs'[r].pc = "done"
CatalogReads == {"get_tickers", "get_base_currency", "get_all_joined"}
RECURSIVE TickersOf(_)
TickersOf(items) ==
    IF items = <<>> THEN {} ELSE {Head(items).ticker} \cup TickersOf(Tail(items))

\* C24: get_portfolio_list returns an error only from a failed catalog read
\* or a failed rate lookup, never from a failed price refresh: join_all is
\* followed by the read of the base currency whatever the refreshes returned,
\* and the response has one summary per holding of the user, each with the
\* price the catalog holds for the ticker.
C24_Degrades ==
    [][\A r \in ReqIds :
        /\ (reqs[r].kind = "list" /\ reqs[r].pc = "join" /\ reqs'[r] # reqs[r]) =>
                reqs'[r].pc = "get_base_currency"
        /\ ListReturns(r) =>
                IF IsErr(reqs'[r].result)
                THEN \/ reqs[r].pc \in CatalogReads /\ reqs'[r].result = DatabaseError
                     \/ reqs[r].pc = "rate_fetch"
                            /\ reqs'[r].result \in
                                {fetch_exchange_rate(reqs[r].from, reqs[r].to, resp).res :
                                    resp \in RateResponses}
                ELSE /\ Len(reqs'[r].response.investments) = Cardinality(portfolio)
                     /\ TickersOf(reqs'[r].response.investments) = portfolio
                     /\ \A i \in 1..Len(reqs'[r].response.investments) :
                            reqs'[r].response.investments[i].current_price =
                                Dec(assets[reqs'[r].response.investments[i].ticker].current_price)
        ]_vars

\* The AAPL refresh of the call failed; the response values AAPL at the
\* price 2 persisted by an earlier call and has a summary of BTC as well.
C24_Witness ==
    \E r \in ReqIds :
        /\ Returned(r, "list") /\ IsOk(reqs[r].result)
        /\ IsErr(tasks[r]["AAPL"].result) /\ IsErr(tasks[r]["BTC"].result)
        /\ assets["AAPL"].current_price = 2
        /\ Len(reqs[r].response.investments) = 2
        /\ reqs[r].response.investments[1].ticker = "AAPL"
        /\ reqs[r].response.investments[1].current_price = Dec(2)

\* --------------------------------------------------------------------- C23
\* C23 as stated: every ensure_price_fresh call, every
\* get_cached_exchange_rate call and every refresh_portfolio call that has
\* started eventually returns, whether or not the upstream answers.
C23_Original ==
    /\ \A k \in Slots :
            (Task(k).pc \notin {"none", "done"}) ~> (Task(k).pc \in {"none", "done"})
    /\ \A r \in ReqIds :
            (reqs[r].kind \in {"rate", "refresh"} /\ reqs[r].pc # "done")
                ~> (reqs[r].pc \in {"none", "done"})

\* ------------------------------------------------------------ refresh_access
\* The calls that returned a new token pair in exchange for the token.
Exchanged(token) ==
    {c \in DOMAIN refresh_calls :
        /\ refresh_calls[c].pc = "done"
        /\ refresh_calls[c].token = token
        /\ IsOk(refresh_calls[c].result)}

\* C25: a refresh token is single-use: over any interleaving of
\* refresh_access calls, two concurrent calls with the same token included,
\* no token is exchanged for a new pair by more than one call.
C25_Original == \A token \in TokenIds : Cardinality(Exchanged(token)) <= 1

\* The call finds its token rotated and finishes the revocation in this step.
Detects(c) == refresh_calls[c].pc = "revoke_all" /\ refresh_calls'[c].pc = "done"

\* The rows of the user there are, the replacement of the token among them.
IssuedTo(user_id) ==
    {t \in DOMAIN refresh_tokens : refresh_tokens[t].user_id = user_id}

\* A revoked row stays revoked, and a call that reads a revoked row fails.
RevokedFails ==
    /\ \A t \in DOMAIN refresh_tokens :
            refresh_tokens[t].is_revoked => refresh_tokens'[t].is_revoked
    /\ \A c \in DOMAIN refresh_calls' \ DOMAIN refresh_calls :
            (/\ refresh_calls'[c].token # 0
             /\ refresh_tokens[refresh_calls'[c].token].is_revoked)
                => (refresh_calls'[c].pc = "done" /\ IsErr(refresh_calls'[c].result))

\* C26 as stated: a refresh_access call with a token already replaced (not
\* revoked, not unknown) fails and revokes every refresh token of the user,
\* so that every later call with a token issued to the user before, the
\* replacement included, fails.
C26_Original ==
    [][/\ \A c \in DOMAIN refresh_calls :
            Detects(c) =>
                /\ IsErr(refresh_calls'[c].result)
                /\ \A t \in IssuedTo(refresh_calls[c].token_row.user_id) :
                        refresh_tokens'[t].is_revoked
       /\ RevokedFails]_vars

\* C26 as amended: the call fails; when its revoke_all_for_user write
\* succeeds every refresh token of the user is revoked and every later call
\* with one of them fails; when the write fails the call returns the
\* database error and no row changes.
C26_ReuseRevokesAll ==
    [][/\ \A c \in DOMAIN refresh_calls :
            Detects(c) =>
                /\ IsErr(refresh_calls'[c].result)
                /\ refresh_calls'[c].result # DatabaseError =>
                        \A t \in IssuedTo(refresh_calls[c].token_row.user_id) :
                            refresh_tokens'[t].is_revoked
                /\ refresh_calls'[c].result = DatabaseError =>
                        refresh_tokens' = refresh_tokens
       /\ RevokedFails]_vars

\* A reuse was detected, and a later call with the replacement token was
\* refused as revoked.
C26_Witness ==
    \E c, d \in DOMAIN refresh_calls :
        /\ refresh_calls[c].pc = "done"
        /\ refresh_calls[c].result = AuthError("Security alert: Token reuse detected")
        /\ refresh_calls[d].pc = "done"
        /\ refresh_calls[d].token = refresh_calls[c].token_row.replaced_by
        /\ refresh_calls[d].result = AuthError("Token revoked")

\* ------------------------------------------------------------ transfer_funds
\* C28: transfer_funds never overdraws the source pocket: over any
\* interleaving of transfer_funds calls on the same source pocket the
\* balance of the pocket never becomes negative through transfers.
C28_Original == \A p \in Pockets : get_pocket_balance(transactions, p) >= 0

\* The rows a call created.
Created(c) == {x \in transactions : x.call = c}

\* The request was turned down: non-positive amount, same pocket, unknown
\* pocket or insufficient funds.
Rejected(c) ==
    /\ transfers[c].pc = "done"
    /\ transfers[c].result.kind \in {"ValidationError", "NotFoundError"}

\* C29: transfer_funds is all-or-nothing: once a call has returned, either
\* both the Transfer Out record in the source pocket and the Transfer In
\* record in the destination pocket exist with the same amount, or neither
\* was created; a rejected request creates no record.
C29_Original ==
    \A c \in DOMAIN transfers :
        /\ transfers[c].pc = "done" =>
              \/ Created(c) = {}
              \/ Created(c) =
                    {Transaction(c, "Transfer Out", transfers[c].source, transfers[c].amount),
                     Transaction(c, "Transfer In", transfers[c].destination,
                                 transfers[c].amount)}
        /\ Rejected(c) => Created(c) = {}
====
